---- MODULE Spec2Model ----
(***************************************************************************)
(* The stream lifecycle coordinator of one server instance                 *)
(* (stream-manager: src/unnamed/part_001) together with the shared store   *)
(* it talks to, and the stop/wait sequence of the chat entry point         *)
(* (ChatService.manageStreamLifecycle: src/unnamed/part_005).              *)
(*                                                                         *)
(* Execution model: one JavaScript event loop.  The code between two       *)
(* awaits runs without interruption; every await on the store or on the    *)
(* AI service is a point where other callbacks may run.  One action is one *)
(* such await together with the synchronous code that follows it up to the *)
(* next await: the store command takes effect when its await resumes.      *)
(* A store command may fail (throw); the number of failures in a run is    *)
(* bounded by MaxFaults.                                                   *)
(*                                                                         *)
(* Time: the health record keeps timestamps; the model keeps the elapsed   *)
(* time since each timestamp, in units of STREAM_TIMEOUT (5 minutes),      *)
(* saturating just above the thresholds the code compares against.         *)
(***************************************************************************)
EXTENDS Integers, Sequences, FiniteSets, TLC

\* ---------------------------------------------------------------- bounds
NumApps == 3                  \* session ids 1..NumApps
MaxCalls == 3                 \* sendMessageWithStreaming calls in one run
MaxAttempts == 2              \* maxAttempts passed to waitForStreamToStop
MaxFaults == 2
HEARTBEAT_INTERVAL == 5       \* seconds between keep-alives of a stream (L460: 5000 ms)
TOKEN_TTL == 15               \* seconds the token lives (L197, EX: 15)
MaxTime == 16                 \* seconds the clock runs
MAX_CONCURRENT_STREAMS == 2   \* capacity N of the pool (10 in the source)
MaxOps == 4                   \* Resilience calls for one context in one run
MaxReqs == 2                  \* chat requests in one run
RetryMaxAttempts == 2         \* config.maxAttempts of withRetry
FailureThreshold == 2         \* config.failureThreshold of the breaker
RecoveryTimeout == 2          \* config.recoveryTimeout, in ticks of its clock
MaxBackoffAttempts == 7       \* largest maxAttempts a withRetry call is given
MAX_ERRORS == 2               \* capacity of errors.recent (100 in the source)
MAX_REQUEST_TIMES == 3        \* capacity of requestTimes (1000 in the source)
MaxRecorded == 5              \* outcomes recorded between two resets

\* ------------------------------------------------------ program constants
STREAM_TIMEOUT == 1           \* 5 * 60 * 1000 ms, the time unit of the model
STREAM_MAX_AGE == 2           \* 10 * 60 * 1000 ms, in units of STREAM_TIMEOUT
maxDelay == 10000             \* defaultRetryOptions.maxDelay, ms
backoffMultiplier == 2        \* defaultRetryOptions.backoffMultiplier
MinSuccessRate == 95          \* getHealthSummary: successRate < 95 is an issue
MaxErrorCount == 50           \* getHealthSummary: errors.count > 50 is an issue

Apps == 1..NumApps
Calls == 1..MaxCalls
Ops == 1..MaxOps
Reqs == 1..MaxReqs

VARIABLES
  token,          \* store key app:<id>:stream-state: "running" or "absent"
  record,         \* the call whose stream the resumable record relays, or 0
  streamHealth,   \* Map appId -> health record, process local
  activeStreams,  \* Set of appIds in insertion order, process local
  streamLocks,    \* Map appId -> the call whose promise is stored
  calls,          \* the sendMessageWithStreaming calls and their streams
  mgr,            \* one manageStreamLifecycle run (stop, then wait)
  faults,         \* the store failures so far: where each one struck
  circuitBreaker, \* the entry of Resilience.circuitBreakers for one context
  ops,            \* the Resilience calls for that context
  reqs,           \* the processChatRequest calls
  metrics,        \* Monitoring.metrics (performance, errors) and requestTimes
  backoff,        \* one withRetry call with the options it was given
  breakers,       \* context -> state of its entry in Resilience.circuitBreakers
  summary,        \* what getHealthSummary last returned
  log,            \* history: the outcomes recorded since the last reset
  capacity,       \* MAX_CONCURRENT_STREAMS as the module was built with it
  pulse           \* the clock, and lastKeepAlive and the token TTL of one stream

vars == <<token, record, streamHealth, activeStreams, streamLocks, calls, mgr, faults,
          circuitBreaker, ops, reqs, metrics, backoff, breakers, summary, log, capacity, pulse>>

\* What the stream manager does not touch, and what Resilience does not.
chat == <<reqs, metrics>>
aside == <<backoff, breakers, summary, log, capacity, pulse>>
outside == <<circuitBreaker, ops, chat, aside>>
inside == <<token, record, streamHealth, activeStreams, streamLocks, calls, mgr, faults>>

Min(x, y) == IF x < y THEN x ELSE y

\* A Map keyed by appId is a function on Apps; NoHealth and NoLock mark a
\* key the Map does not hold.
NoHealth == [has |-> FALSE, idle |-> 0, age |-> 0]
NoLock == 0

\* Store failures: a command may throw while fewer than MaxFaults have.
\* faults counts them by place: inside forceCleanupStream, or elsewhere.
NoFaults == [cleanup |-> 0, cmd |-> 0]
CanFail == faults.cleanup + faults.cmd < MaxFaults
StoreOutcomes == IF CanFail THEN {TRUE, FALSE} ELSE {TRUE}
Charge(ok) == faults' = IF ok THEN faults ELSE [faults EXCEPT !.cmd = @ + 1]
ChargeCleanup(out) == faults' = IF out = "ok" THEN faults ELSE [faults EXCEPT !.cleanup = @ + 1]

\* ------------------------------------------------------- store operations
isStreamRunning(tk, a) == tk[a] = "running"
\* A clear that flips the token instead of deleting it.
clearStreamState_Flip(tk, a) ==
  [tk EXCEPT ![a] = IF @ = "running" THEN "absent" ELSE "running"]
clearStreamState(tk, a) == [tk EXCEPT ![a] = "absent"]
updateKeepAlive(tk, a) == [tk EXCEPT ![a] = "running"]
\* No stream record is ever found.
hasExistingStream_Never(rc, a) == FALSE
hasExistingStream(rc, a) == rc[a] # 0

\* ------------------------------------------------------ health monitoring
NewHealth == [has |-> TRUE, idle |-> 0, age |-> 0]
TimeSinceLastActivity(h) == h.idle
StreamAge(h) == h.age

isStreamHealthy(sh, a) ==
  IF ~sh[a].has THEN FALSE
  ELSE TimeSinceLastActivity(sh[a]) < STREAM_TIMEOUT /\ StreamAge(sh[a]) < STREAM_MAX_AGE

updateStreamHealth(sh, a) ==
  IF sh[a].has THEN [sh EXCEPT ![a].idle = 0] ELSE sh

\* -------------------------------------------------------- connection pool
canStartNewStream(as) == Len(as) < capacity

InPool(as, a) == \E i \in 1..Len(as) : as[i] = a

\* A reservation that does not look at the capacity.
reserveStreamSlot_Unchecked(as, a) ==
  [ok |-> TRUE, set |-> IF InPool(as, a) THEN as ELSE Append(as, a)]

reserveStreamSlot(as, a) ==
  IF canStartNewStream(as)
    THEN [ok |-> TRUE, set |-> IF InPool(as, a) THEN as ELSE Append(as, a)]
    ELSE [ok |-> FALSE, set |-> as]

releaseStreamSlot(as, a) == SelectSeq(as, LAMBDA x : x # a)

\* Array.from(activeStreams).slice(0, 2)
OldestStreams(as) == SubSeq(as, 1, Min(2, Len(as)))

\* ----------------------------------------------------------- forceCleanup
\* out = "ok": every store command succeeds; "del": clearStreamState throws;
\* "aux": a redis.del of an auxiliary key throws.  threw tells whether the
\* failure leaves the function: it is caught and logged inside.
CleanupOutcomes == IF CanFail THEN {"ok", "del", "aux"} ELSE {"ok"}

\* A force cleanup that lets the failure of a store command out.
forceCleanupStream_Throws(st, a, out) ==
  IF out = "ok"
    THEN [token |-> clearStreamState(st.token, a),
          health |-> [st.health EXCEPT ![a] = NoHealth],
          active |-> releaseStreamSlot(st.active, a),
          threw |-> FALSE]
    ELSE [token |-> st.token, health |-> st.health, active |-> st.active, threw |-> TRUE]

forceCleanupStream(st, a, out) ==
  IF out = "del"
    THEN [token |-> st.token, health |-> st.health, active |-> st.active, threw |-> FALSE]
    ELSE [token |-> clearStreamState(st.token, a),
          health |-> [st.health EXCEPT ![a] = NoHealth],
          active |-> releaseStreamSlot(st.active, a),
          threw |-> FALSE]

Local == [token |-> token, health |-> streamHealth, active |-> activeStreams]

\* ------------------------------------------------------------------ calls
\* pc: the await the call is suspended at.  subs: abort callbacks registered
\* (1: L438, 2: also L513).  prod: the producer started by the call.
\* prior (history): how the reconciliation dealt with the holder it found:
\* "true" or "false" as waitForStreamToStop returned, "forced" after a
\* force cleanup; kept until the producer is invoked.  flushed: the unsaved
\* messages of the stream were handed to saveMessagesToMemory (L473-475).
IdleCall == [pc |-> "idle", app |-> 0, awaiting |-> 0, relief |-> <<>>,
             attempts |-> 0, result |-> "none", subs |-> 0,
             shouldAbort |-> FALSE, aborted |-> FALSE, prod |-> "none",
             prior |-> "none", flushed |-> FALSE]
\* getOrCreateCircuitBreaker (part_004 L175-187): a new entry is closed with
\* lastFailureTime 0, which is more than recoveryTimeout ago.  since is
\* Date.now() - lastFailureTime, saturating at RecoveryTimeout.
getOrCreateCircuitBreaker ==
  [state |-> "closed", failureCount |-> 0, since |-> RecoveryTimeout]

\* attempt: the invocations of the operation so far.  History: via is the
\* state of the breaker the call was let through in, incs the increments of
\* failureCount this call made and drop what it took off by resetting it.
IdleOps == [o \in Ops |-> [pc |-> "idle", kind |-> "none", attempt |-> 0,
                            result |-> "none", last |-> "none", via |-> "none",
                            incs |-> 0, drop |-> 0]]
\* call: the sendMessageWithStreaming call the request awaits.  attempt: the
\* invocations withRetry has made for it.
IdleReqs == [r \in Reqs |-> [pc |-> "idle", app |-> 0, call |-> 0, attempt |-> 0,
                              response |-> "none"]]
\* Monitoring.metrics as constructed and as resetMetrics leaves it (part_002
\* L20-36, L113-130).  successRate is kept as the quotient it was computed
\* from: (num / den) * 100.
NoMetrics == [totalRequests |-> 0, successfulRequests |-> 0, failedRequests |-> 0,
              successRate |-> [num |-> 1, den |-> 1],
              recent |-> <<>>, count |-> 0, requestTimes |-> <<>>]
\* The contexts withResilience is called with (part_005 L52, L67) and one
\* more of another caller.  A context that was never used, or was reset, has
\* no entry.  circuitBreaker is the entry of one context in full.
Contexts == {"mcp-server-request", "streaming", "other"}
NoBreakers == [x \in Contexts |-> "none"]
NoLog == [entries |-> <<>>, resets |-> 0]

\* No summary was asked for yet.
NoSummary == [status |-> "none", issues |-> {}]
\* now: Date.now() in seconds.  lastKeepAlive: the variable of the closure of
\* one stream (part_001 L442).  expires: when the TTL of the token set last
\* runs out.  chunks, beats (history): when that stream had a chunk, and when
\* a chunk made it call updateKeepAlive.
NoPulse == [now |-> 0, lastKeepAlive |-> 0, expires |-> 0, chunks |-> {}, beats |-> {}]
\* delay: what the call last slept, 0 before it has.
IdleBackoff == [pc |-> "idle", maxAttempts |-> 0, baseDelay |-> 0, attempt |-> 0,
                delay |-> 0, result |-> "none"]
\* quiet (history): since the stop, the producer of the session has reached a
\* cancellation checkpoint or ended, or there was none to stop.
IdleMgr == [pc |-> "idle", app |-> 0, attempts |-> 0, result |-> "none", quiet |-> FALSE]

\* All but the Monitoring counters and the breaker states.
InitRest ==
  /\ token = [a \in Apps |-> "absent"]
  /\ record = [a \in Apps |-> 0]
  /\ streamHealth = [a \in Apps |-> NoHealth]
  /\ activeStreams = <<>>
  /\ streamLocks = [a \in Apps |-> NoLock]
  /\ calls = [c \in Calls |-> IdleCall]
  /\ mgr = IdleMgr
  /\ faults = NoFaults
  /\ circuitBreaker = getOrCreateCircuitBreaker
  /\ ops = IdleOps
  /\ reqs = IdleReqs
  /\ backoff = IdleBackoff
  /\ summary = NoSummary
  /\ log = NoLog
  /\ capacity = MAX_CONCURRENT_STREAMS
  /\ pulse = NoPulse

Init ==
  /\ InitRest
  /\ metrics = NoMetrics
  /\ breakers = NoBreakers

App(c) == calls[c].app
SetCall(c, r) == calls' = [calls EXCEPT ![c] = r]

\* The async body (L408-565) has started and has not settled.
OpPcs == {"relief", "reserve", "es_isRunning", "es_stop", "es_wait", "es_force", "es_clear",
          "es_catch", "invoke", "setStream", "start", "fallback"}
InOp(c) == calls[c].pc \in OpPcs

\* events:<id> delivered to the callbacks registered for the session: the
\* first callback (L438) sets shouldAbort, the second (L513) aborts the
\* controller.  The callbacks of a stream whose producer has ended act on
\* nothing that is read again.
Hears(r, a) == r.app = a /\ r.subs >= 1 /\ (r.prod = "active" \/ r.pc = "invoke")
Publish(cs, a) ==
  [c \in Calls |->
     IF Hears(cs[c], a)
       THEN [cs[c] EXCEPT !.shouldAbort = TRUE,
                          !.aborted = (cs[c].aborted \/ cs[c].subs = 2)]
       ELSE cs[c]]

\* stopStream (L45-51): publish the abort event, then delete the token.
\* out = "pub": the publish throws; "del": the delete throws.
StopOutcomes == IF CanFail THEN {"ok", "pub", "del"} ELSE {"ok"}
stopStreamCalls(cs, a, out) == IF out = "pub" THEN cs ELSE Publish(cs, a)
stopStreamToken(tk, a, out) == IF out = "ok" THEN clearStreamState(tk, a) ELSE tk

\* The producer of a stream has ended: its closure is dropped, and the
\* resumable record it fed is complete.
Ended(r) == [r EXCEPT !.prod = "ended", !.shouldAbort = FALSE, !.aborted = FALSE, !.subs = 0,
                      !.flushed = FALSE]
RecordAfterEnd(c) == [record EXCEPT ![App(c)] = IF @ = c THEN 0 ELSE @]

\* The producer of call c is at a cancellation checkpoint, or ends.
Checkpoint(c) ==
  IF mgr.pc = "wait" /\ mgr.app = App(c) THEN [mgr EXCEPT !.quiet = TRUE] ELSE mgr

\* L408-431 up to the first await, then L568: the body runs synchronously to
\* its first store command, after which the caller stores the promise.
BeginOp(c, r) ==
  LET a == r.app
      res == reserveStreamSlot(activeStreams, a)
  IN /\ streamLocks' = [streamLocks EXCEPT ![a] = c]
     /\ IF canStartNewStream(activeStreams)
          THEN /\ activeStreams' = res.set
               /\ SetCall(c, [r EXCEPT !.pc = "es_isRunning"])
          ELSE /\ activeStreams' = activeStreams
               /\ SetCall(c, [r EXCEPT !.pc = "relief",
                                       !.relief = OldestStreams(activeStreams)])

\* The promise settles and the lock entry stays.
Settle_KeepsLock(c, r, res) ==
  /\ SetCall(c, [r EXCEPT !.pc = "done", !.result = res])
  /\ UNCHANGED streamLocks

\* finally (L561-564) and the settling of the promise.
Settle(c, r, res) ==
  /\ SetCall(c, [r EXCEPT !.pc = "done", !.result = res])
  /\ streamLocks' = [streamLocks EXCEPT ![r.app] = NoLock]

\* The call fails before its body starts (L396-400 throw).
Reject(c) == SetCall(c, [calls[c] EXCEPT !.pc = "done", !.result = "rejected", !.awaiting = 0])

\* sendMessageWithStreaming(appId) is called (L384-406).
sendMessageWithStreaming(c, a) ==
  /\ calls[c].pc = "idle"
  /\ IF c = 1 THEN TRUE ELSE calls[c - 1].pc # "idle"
  /\ IF streamLocks[a] # NoLock
       THEN /\ SetCall(c, [calls[c] EXCEPT !.app = a, !.pc = "waitLock",
                                           !.awaiting = streamLocks[a]])
            /\ UNCHANGED <<activeStreams, streamLocks>>
       ELSE BeginOp(c, [calls[c] EXCEPT !.app = a])
  /\ UNCHANGED <<token, record, streamHealth, mgr, faults>>

\* A call made by anyone but processChatRequest.
CallStart(c, a) == sendMessageWithStreaming(c, a) /\ UNCHANGED outside

\* await streamLocks.get(appId) resumes (L396): the awaited promise settled.
WaitLockResume(c) ==
  /\ calls[c].pc = "waitLock"
  /\ calls[calls[c].awaiting].pc = "done"
  /\ IF calls[calls[c].awaiting].result \in {"capacity", "fatal", "cleanupError"}
       THEN Reject(c)
       ELSE SetCall(c, [calls[c] EXCEPT !.pc = "w_isRunning", !.awaiting = 0])
  /\ UNCHANGED <<token, record, streamHealth, activeStreams, streamLocks, mgr, faults>>
  /\ UNCHANGED outside

\* await isStreamRunning(appId) after the wait (L398).
WaitIsRunning(c) ==
  /\ calls[c].pc = "w_isRunning"
  /\ \E ok \in StoreOutcomes :
       /\ Charge(ok)
       /\ IF ~ok
            THEN Reject(c) /\ UNCHANGED <<activeStreams, streamLocks>>
            ELSE IF isStreamRunning(token, App(c))
                   THEN /\ SetCall(c, [calls[c] EXCEPT !.pc = "w_getStream"])
                        /\ UNCHANGED <<activeStreams, streamLocks>>
                   ELSE BeginOp(c, calls[c])
  /\ UNCHANGED <<token, record, streamHealth, mgr>>
  /\ UNCHANGED outside

\* await getStream(appId) (L400-403, L80-109).
WaitGetStream(c) ==
  /\ calls[c].pc = "w_getStream"
  /\ \E ok \in StoreOutcomes :
       /\ Charge(ok)
       /\ IF ~ok
            THEN Reject(c) /\ UNCHANGED <<activeStreams, streamLocks>>
            ELSE IF hasExistingStream(record, App(c))
                   THEN /\ SetCall(c, [calls[c] EXCEPT !.pc = "done", !.result = "existing"])
                        /\ UNCHANGED <<activeStreams, streamLocks>>
                   ELSE BeginOp(c, calls[c])
  /\ UNCHANGED <<token, record, streamHealth, mgr>>
  /\ UNCHANGED outside

\* One forceCleanupStream of the capacity relief (L417-420).
ReliefStep(c) ==
  /\ calls[c].pc = "relief"
  /\ \E out \in CleanupOutcomes :
       LET old == Head(calls[c].relief)
           fc == forceCleanupStream(Local, old, out)
           rest == Tail(calls[c].relief)
       IN /\ ChargeCleanup(out)
          /\ token' = fc.token
          /\ streamHealth' = fc.health
          /\ activeStreams' = fc.active
          /\ IF fc.threw
               THEN Settle(c, [calls[c] EXCEPT !.relief = <<>>], "cleanupError")
               ELSE /\ SetCall(c, [calls[c] EXCEPT !.relief = rest,
                                      !.pc = IF rest = <<>> THEN "reserve" ELSE "relief"])
                    /\ UNCHANGED streamLocks
  /\ UNCHANGED <<record, mgr>>
  /\ UNCHANGED outside

\* After the last cleanup of the relief has returned, the slot is reserved
\* or the capacity error is thrown (L424-428); ensureSingleStream is called.
Reserve(c) ==
  /\ calls[c].pc = "reserve"
  /\ LET res == reserveStreamSlot(activeStreams, App(c))
     IN IF res.ok
          THEN /\ activeStreams' = res.set
               /\ SetCall(c, [calls[c] EXCEPT !.pc = "es_isRunning"])
               /\ UNCHANGED streamLocks
          ELSE /\ activeStreams' = activeStreams
               /\ Settle(c, calls[c], "capacity")
  /\ UNCHANGED <<token, record, streamHealth, mgr, faults>>
  /\ UNCHANGED outside

\* ------------------------------------------------------ ensureSingleStream
\* await isStreamRunning, then isStreamHealthy (L305-307).
EsIsRunning(c) ==
  /\ calls[c].pc = "es_isRunning"
  /\ \E ok \in StoreOutcomes :
       /\ Charge(ok)
       /\ SetCall(c, [calls[c] EXCEPT !.pc =
            IF ~ok THEN "es_catch"
            ELSE IF ~isStreamRunning(token, App(c)) THEN "es_clear"
            ELSE IF isStreamHealthy(streamHealth, App(c)) THEN "es_stop"
            ELSE "es_force"])
  /\ UNCHANGED <<token, record, streamHealth, activeStreams, streamLocks, mgr>>
  /\ UNCHANGED outside

\* The healthy branch: await stopStream(appId) (L311).
EsStop(c) ==
  /\ calls[c].pc = "es_stop"
  /\ \E out \in StopOutcomes :
       /\ Charge(out = "ok")
       /\ token' = stopStreamToken(token, App(c), out)
       /\ calls' = [stopStreamCalls(calls, App(c), out) EXCEPT
                      ![c].pc = IF out = "ok" THEN "es_wait" ELSE "es_catch"]
  /\ UNCHANGED <<record, streamHealth, activeStreams, streamLocks, mgr>>
  /\ UNCHANGED outside

\* A wait that gives up one read late.
waitForStreamToStop_Late(r, tk, ok) ==
  IF ~ok THEN [state |-> "threw", attempts |-> r.attempts]
  ELSE IF tk[r.app] # "running" THEN [state |-> "true", attempts |-> r.attempts + 1]
  ELSE IF r.attempts + 1 > MaxAttempts THEN [state |-> "false", attempts |-> r.attempts + 1]
  ELSE [state |-> "polling", attempts |-> r.attempts + 1]

\* One iteration of waitForStreamToStop (L60-66): read the token; absent ends
\* the wait with true; otherwise sleep, and after maxAttempts reads the wait
\* ends with false (L67).  r is the record of the waiting process.
waitForStreamToStop(r, tk, ok) ==
  IF ~ok THEN [state |-> "threw", attempts |-> r.attempts]
  ELSE IF tk[r.app] # "running" THEN [state |-> "true", attempts |-> r.attempts + 1]
  ELSE IF r.attempts + 1 >= MaxAttempts THEN [state |-> "false", attempts |-> r.attempts + 1]
  ELSE [state |-> "polling", attempts |-> r.attempts + 1]

\* await waitForStreamToStop(appId) (L312); what it returns is not read.
EsWait(c) ==
  /\ calls[c].pc = "es_wait"
  /\ \E ok \in StoreOutcomes :
       LET w == waitForStreamToStop(calls[c], token, ok)
       IN /\ Charge(ok)
          /\ SetCall(c, [calls[c] EXCEPT
               !.attempts = IF w.state = "polling" THEN w.attempts ELSE 0,
               !.prior = IF w.state \in {"true", "false"} THEN w.state ELSE @,
               !.pc = CASE w.state = "threw" -> "es_catch"
                        [] w.state = "polling" -> "es_wait"
                        [] OTHER -> "es_clear"])
  /\ UNCHANGED <<token, record, streamHealth, activeStreams, streamLocks, mgr>>
  /\ UNCHANGED outside

\* The stuck branch: forceCleanupStream(appId) (L314-315).
EsForce(c) ==
  /\ calls[c].pc = "es_force"
  /\ \E out \in CleanupOutcomes :
       LET fc == forceCleanupStream(Local, App(c), out)
       IN /\ ChargeCleanup(out)
          /\ token' = fc.token
          /\ streamHealth' = fc.health
          /\ activeStreams' = fc.active
          /\ SetCall(c, [calls[c] EXCEPT !.pc = IF fc.threw THEN "es_catch" ELSE "es_clear",
                                          !.prior = "forced"])
  /\ UNCHANGED <<record, streamLocks, mgr>>
  /\ UNCHANGED outside

\* Clear stale state and initialise health monitoring (L320-327); then the
\* first abort callback is registered (L433-442).
EsClear(c) ==
  /\ calls[c].pc = "es_clear"
  /\ \E ok \in StoreOutcomes :
       /\ Charge(ok)
       /\ token' = IF ok THEN clearStreamState(token, App(c)) ELSE token
       /\ streamHealth' = IF ok THEN [streamHealth EXCEPT ![App(c)] = NewHealth]
                          ELSE streamHealth
       /\ SetCall(c, IF ok THEN [calls[c] EXCEPT !.pc = "invoke", !.subs = 1]
                     ELSE [calls[c] EXCEPT !.pc = "es_catch"])
  /\ UNCHANGED <<record, activeStreams, streamLocks, mgr>>
  /\ UNCHANGED outside

\* catch of ensureSingleStream (L328-332): force cleanup and continue.
EsCatch(c) ==
  /\ calls[c].pc = "es_catch"
  /\ \E out \in CleanupOutcomes :
       LET fc == forceCleanupStream(Local, App(c), out)
       IN /\ ChargeCleanup(out)
          /\ token' = fc.token
          /\ streamHealth' = fc.health
          /\ activeStreams' = fc.active
          /\ IF fc.threw
               THEN Settle(c, [calls[c] EXCEPT !.prior = "none"], "cleanupError")
               ELSE /\ SetCall(c, [calls[c] EXCEPT !.pc = "invoke", !.subs = 1,
                                                   !.prior = "forced"])
                    /\ UNCHANGED streamLocks
  /\ UNCHANGED <<record, mgr>>
  /\ UNCHANGED outside

\* ------------------------------------------------------------ stream setup
\* A setup failure that is thrown to the caller.
SetupFailed_Throws(c, r) ==
  /\ streamHealth' = [streamHealth EXCEPT ![r.app] = NoHealth]
  /\ activeStreams' = releaseStreamSlot(activeStreams, r.app)
  /\ SetCall(c, [r EXCEPT !.pc = "done", !.result = "fatal"])

\* catch of the setup (L521-526).
SetupFailed(c, r) ==
  /\ streamHealth' = [streamHealth EXCEPT ![r.app] = NoHealth]
  /\ activeStreams' = releaseStreamSlot(activeStreams, r.app)
  /\ SetCall(c, [r EXCEPT !.pc = "fallback"])

\* await AIService.sendMessage (L446-495): the producer starts, or the call
\* throws.
Invoke(c) ==
  /\ calls[c].pc = "invoke"
  /\ \/ /\ SetCall(c, [calls[c] EXCEPT !.pc = "setStream", !.prod = "active",
                                          !.prior = "none"])
        /\ UNCHANGED <<streamHealth, activeStreams>>
     \/ SetupFailed(c, [calls[c] EXCEPT !.prior = "none"])
  /\ UNCHANGED <<token, record, streamLocks, mgr, faults>>
  /\ UNCHANGED outside

\* await setStream (L506-510, L114-175): the token is set with its TTL and
\* the resumable record created; then the second abort callback is
\* registered (L513-515).  out = "set": a throw before the token is set
\* (L120-136); "create": createNewResumableStream fails (L138-150).
SetStreamOutcomes == IF CanFail THEN {"ok", "set", "create"} ELSE {"ok"}

SetStream(c) ==
  /\ calls[c].pc = "setStream"
  /\ \E out \in SetStreamOutcomes :
       /\ Charge(out = "ok")
       /\ token' = IF out = "set" THEN token ELSE updateKeepAlive(token, App(c))
       /\ IF out = "ok"
            THEN /\ record' = [record EXCEPT ![App(c)] = IF calls[c].prod = "active" THEN c ELSE @]
                 /\ SetCall(c, [calls[c] EXCEPT !.pc = "start",
                                  !.subs = IF calls[c].prod = "active" THEN 2 ELSE @])
                 /\ UNCHANGED <<streamHealth, activeStreams>>
            ELSE /\ record' = record
                 /\ SetupFailed(c, calls[c])
  /\ UNCHANGED <<streamLocks, mgr>>
  /\ UNCHANGED outside

\* handleStreamLifecycle(appId, "start") and the return (L518-520, L561-564).
Start(c) ==
  /\ calls[c].pc = "start"
  /\ \E ok \in StoreOutcomes :
       /\ Charge(ok)
       /\ IF ok
            THEN /\ token' = updateKeepAlive(token, App(c))
                 /\ Settle(c, calls[c], "stream")
                 /\ UNCHANGED <<streamHealth, activeStreams>>
            ELSE /\ token' = token
                 /\ SetupFailed(c, calls[c])
                 /\ UNCHANGED streamLocks
  /\ UNCHANGED <<record, mgr>>
  /\ UNCHANGED outside

\* The fallback (L529-557): getUnsavedMessages, then saveMessagesToMemory if
\* there are any, then the synthetic completion; a throw of either makes the
\* call fail (L553-556).  "none": nothing was unsaved; "saved": the unsaved
\* messages were saved.
FallbackOutcomes == {"none", "saved", "getFailed", "saveFailed"}
FallbackResult(out) == IF out \in {"none", "saved"} THEN "synthetic" ELSE "fatal"

Fallback(c) ==
  /\ calls[c].pc = "fallback"
  /\ \E out \in FallbackOutcomes : Settle(c, calls[c], FallbackResult(out))
  /\ UNCHANGED <<token, record, streamHealth, activeStreams, mgr, faults>>
  /\ UNCHANGED outside

\* ------------------------------------------------------ producer callbacks
\* A terminal callback: the token is cleared, then the health record is
\* deleted and the slot released; if clearing throws, the rest is skipped.
Terminal(c, ok) ==
  /\ Charge(ok)
  /\ token' = IF ok THEN clearStreamState(token, App(c)) ELSE token
  /\ streamHealth' = IF ok THEN [streamHealth EXCEPT ![App(c)] = NoHealth] ELSE streamHealth
  /\ activeStreams' = IF ok THEN releaseStreamSlot(activeStreams, App(c)) ELSE activeStreams
  /\ SetCall(c, Ended(calls[c]))
  /\ record' = RecordAfterEnd(c)
  /\ mgr' = Checkpoint(c)

\* onChunk when more than 5 s have passed since the last keep-alive
\* (L458-465): the token is refreshed and the health record touched.
onChunk(c) ==
  /\ calls[c].prod = "active"
  /\ token' = updateKeepAlive(token, App(c))
  /\ streamHealth' = updateStreamHealth(streamHealth, App(c))
  /\ UNCHANGED <<record, activeStreams, streamLocks, calls, mgr, faults>>

OnChunk(c) == onChunk(c) /\ UNCHANGED outside

\* A keep-alive that is due as soon as the interval has passed.
KeepAliveDue_AtInterval(now, lastKeepAlive) == now - lastKeepAlive >= HEARTBEAT_INTERVAL

\* now - lastKeepAlive > 5000 (L460).
KeepAliveDue(now, lastKeepAlive) == now - lastKeepAlive > HEARTBEAT_INTERVAL

\* onChunk at the time of the clock (L458-465): when the keep-alive is due,
\* lastKeepAlive is set before updateKeepAlive is awaited; when that throws,
\* the token and the health record stay as they were.
OnChunkAt(c) ==
  /\ calls[c].prod = "active"
  /\ IF KeepAliveDue(pulse.now, pulse.lastKeepAlive)
       THEN \E ok \in StoreOutcomes :
              /\ Charge(ok)
              /\ token' = IF ok THEN updateKeepAlive(token, App(c)) ELSE token
              /\ streamHealth' = IF ok THEN updateStreamHealth(streamHealth, App(c))
                                 ELSE streamHealth
              /\ pulse' = [pulse EXCEPT !.lastKeepAlive = pulse.now,
                                        !.expires = IF ok THEN pulse.now + TOKEN_TTL ELSE @,
                                        !.chunks = @ \cup {pulse.now},
                                        !.beats = @ \cup {pulse.now}]
       ELSE /\ pulse' = [pulse EXCEPT !.chunks = @ \cup {pulse.now}]
            /\ UNCHANGED <<token, streamHealth, faults>>
  /\ UNCHANGED <<record, activeStreams, streamLocks, calls, mgr>>
  /\ UNCHANGED <<circuitBreaker, ops, chat, backoff, breakers, summary, log, capacity>>

\* A second passes; the token is gone when its TTL has run out.
Second ==
  /\ pulse.now < MaxTime
  /\ pulse' = [pulse EXCEPT !.now = @ + 1]
  /\ token' = [a \in Apps |-> IF a = 1 /\ pulse.now + 1 >= pulse.expires
                                 THEN "absent" ELSE token[a]]
  /\ UNCHANGED <<record, streamHealth, activeStreams, streamLocks, calls, mgr, faults>>
  /\ UNCHANGED <<circuitBreaker, ops, chat, backoff, breakers, summary, log, capacity>>

\* onStepFinish (L467-476): the step boundary where an abort is observed.
\* The token is cleared, then the controller aborted, then the unsaved
\* messages are read and saved; a throw of the store ends the handler before
\* the abort.
OnStepFinish(c) ==
  /\ calls[c].prod = "active"
  /\ streamHealth' = updateStreamHealth(streamHealth, App(c))
  /\ IF calls[c].shouldAbort
       THEN \E ok \in StoreOutcomes :
              /\ Charge(ok)
              /\ token' = IF ok THEN clearStreamState(token, App(c)) ELSE token
              /\ SetCall(c, [calls[c] EXCEPT !.aborted = @ \/ ok, !.flushed = @ \/ ok])
              /\ mgr' = Checkpoint(c)
       ELSE UNCHANGED <<token, calls, faults, mgr>>
  /\ UNCHANGED <<record, activeStreams, streamLocks>>
  /\ UNCHANGED outside

\* onFinish (L486-492).
OnFinish(c) ==
  /\ calls[c].prod = "active"
  /\ \E ok \in StoreOutcomes : Terminal(c, ok)
  /\ UNCHANGED streamLocks
  /\ UNCHANGED outside

\* onError (L477-485).  It also sets fallbackToMemory, which is read at L529
\* only; that line is reached through the catch of the setup alone, which
\* sets the flag itself, so the flag set here decides nothing.
OnError(c) ==
  /\ calls[c].prod = "active"
  /\ \E ok \in StoreOutcomes : Terminal(c, ok)
  /\ UNCHANGED streamLocks
  /\ UNCHANGED outside

\* The producer acts on its aborted cancellation token and ends without a
\* terminal callback.
ProducerCancelled(c) ==
  /\ calls[c].prod = "active"
  /\ calls[c].aborted
  /\ SetCall(c, Ended(calls[c]))
  /\ record' = RecordAfterEnd(c)
  /\ mgr' = Checkpoint(c)
  /\ UNCHANGED <<token, streamHealth, activeStreams, streamLocks, faults>>
  /\ UNCHANGED outside

\* ------------------------------------------------------------------ sweep
Stuck(h) == h.has /\ TimeSinceLastActivity(h) > STREAM_TIMEOUT
TooLong(h) == h.has /\ StreamAge(h) > STREAM_MAX_AGE

\* A timer that force-cleans every entry it finds.
SweepEntry_All(a) ==
  /\ streamHealth[a].has
  /\ \E o1 \in CleanupOutcomes :
       LET fc1 == forceCleanupStream(Local, a, o1)
       IN /\ ChargeCleanup(o1)
          /\ token' = fc1.token
          /\ streamHealth' = fc1.health
          /\ activeStreams' = fc1.active
  /\ UNCHANGED <<record, streamLocks, calls, mgr>>
  /\ UNCHANGED outside

\* The health check timer on one entry of streamHealth (L228-252): a force
\* cleanup if the stream is stuck, and one more if it is running too long.
SweepEntry(a) ==
  /\ Stuck(streamHealth[a]) \/ TooLong(streamHealth[a])
  /\ \E o1 \in CleanupOutcomes, o2 \in CleanupOutcomes :
       LET h == streamHealth[a]
           fc1 == IF Stuck(h) THEN forceCleanupStream(Local, a, o1) ELSE Local
           fc2 == IF TooLong(h) THEN forceCleanupStream(fc1, a, o2) ELSE fc1
           bad == (IF Stuck(h) /\ o1 # "ok" THEN 1 ELSE 0)
                  + (IF TooLong(h) /\ o2 # "ok" THEN 1 ELSE 0)
       IN /\ ~Stuck(h) => o1 = "ok"
          /\ ~TooLong(h) => o2 = "ok"
          /\ faults.cleanup + faults.cmd + bad <= MaxFaults
          /\ faults' = [faults EXCEPT !.cleanup = @ + bad]
          /\ token' = fc2.token
          /\ streamHealth' = fc2.health
          /\ activeStreams' = fc2.active
  /\ UNCHANGED <<record, streamLocks, calls, mgr>>
  /\ UNCHANGED outside

\* ------------------------------------------------------------ environment
\* Time passes by one unit: every health record ages.
Older(h) ==
  IF h.has THEN [h EXCEPT !.idle = Min(@ + 1, STREAM_TIMEOUT + 1),
                          !.age = Min(@ + 1, STREAM_MAX_AGE + 1)]
  ELSE h

Tick ==
  /\ \E a \in Apps : Older(streamHealth[a]) # streamHealth[a]
  /\ streamHealth' = [a \in Apps |-> Older(streamHealth[a])]
  /\ UNCHANGED <<token, record, activeStreams, streamLocks, calls, mgr, faults>>
  /\ UNCHANGED outside

\* The TTL of the token (EX 15) runs out.
ExpireToken(a) ==
  /\ token[a] = "running"
  /\ token' = [token EXCEPT ![a] = "absent"]
  /\ UNCHANGED <<record, streamHealth, activeStreams, streamLocks, calls, mgr, faults>>
  /\ UNCHANGED outside

\* The exported stopStream called on its own (the stop command).
StopCommand(a) ==
  /\ token[a] = "running" \/ \E c \in Calls : Hears(calls[c], a)
  /\ \E out \in StopOutcomes :
       /\ Charge(out = "ok")
       /\ token' = stopStreamToken(token, a, out)
       /\ calls' = stopStreamCalls(calls, a, out)
  /\ UNCHANGED <<record, streamHealth, activeStreams, streamLocks, mgr>>
  /\ UNCHANGED outside

\* ------------------------------------------------- manageStreamLifecycle
\* if (await isStreamRunning(appId)) (part_005 L98).
manageStreamLifecycle(a) ==
  /\ mgr.pc = "idle"
  /\ \E ok \in StoreOutcomes :
       /\ Charge(ok)
       /\ mgr' = IF ~ok THEN [mgr EXCEPT !.app = a, !.pc = "done", !.result = "threw"]
                 ELSE IF isStreamRunning(token, a)
                        THEN [mgr EXCEPT !.app = a, !.pc = "stop"]
                        ELSE [mgr EXCEPT !.app = a, !.pc = "done", !.result = "idle"]
  /\ UNCHANGED <<token, record, streamHealth, activeStreams, streamLocks, calls>>

\* A lifecycle run on its own.
MgrStart(a) == manageStreamLifecycle(a) /\ UNCHANGED outside

\* await stopStream(appId) (part_005 L100).
MgrStop ==
  /\ mgr.pc = "stop"
  /\ \E out \in StopOutcomes :
       /\ Charge(out = "ok")
       /\ token' = stopStreamToken(token, mgr.app, out)
       /\ calls' = stopStreamCalls(calls, mgr.app, out)
       /\ mgr' = IF out = "ok"
                   THEN [mgr EXCEPT !.pc = "wait",
                           !.quiet = \A c \in Calls :
                                       ~(App(c) = mgr.app /\ calls[c].prod = "active")]
                   ELSE [mgr EXCEPT !.pc = "done", !.result = "threw"]
  /\ UNCHANGED <<record, streamHealth, activeStreams, streamLocks>>
  /\ UNCHANGED outside

\* One iteration of waitForStreamToStop (part_001 L60-67, part_005 L103).
MgrWait ==
  /\ mgr.pc = "wait"
  /\ \E ok \in StoreOutcomes :
       LET w == waitForStreamToStop(mgr, token, ok)
       IN /\ Charge(ok)
          /\ mgr' = CASE w.state = "threw" -> [mgr EXCEPT !.pc = "done", !.result = "threw"]
                      [] w.state = "polling" -> [mgr EXCEPT !.attempts = w.attempts]
                      [] w.state = "true" ->
                           [mgr EXCEPT !.attempts = w.attempts, !.pc = "done", !.result = "true"]
                      [] OTHER -> [mgr EXCEPT !.attempts = w.attempts, !.pc = "clear",
                                              !.result = "false"]
  /\ UNCHANGED <<token, record, streamHealth, activeStreams, streamLocks, calls>>
  /\ UNCHANGED outside

\* The wait returned false: clearStreamState, then throw (part_005 L104-108).
MgrClear ==
  /\ mgr.pc = "clear"
  /\ \E ok \in StoreOutcomes :
       /\ Charge(ok)
       /\ token' = IF ok THEN clearStreamState(token, mgr.app) ELSE token
       /\ mgr' = [mgr EXCEPT !.pc = "done"]
  /\ UNCHANGED <<record, streamHealth, activeStreams, streamLocks, calls>>
  /\ UNCHANGED outside

\* -------------------------------------------------------------- Resilience
\* A check that lets every call through.
BreakerAdmit_Always(b) == [admitted |-> TRUE, cb |-> b]

\* The check at the head of withCircuitBreaker (L85-101): is the call let
\* through, and what it makes of the breaker.
BreakerAdmit(b) ==
  IF b.state = "open"
    THEN IF b.since < RecoveryTimeout
           THEN [admitted |-> FALSE, cb |-> b]
           ELSE [admitted |-> TRUE, cb |-> [b EXCEPT !.state = "half-open", !.failureCount = 0]]
    ELSE [admitted |-> TRUE, cb |-> b]

\* The operation returned (L102-109).
BreakerSuccess(b) ==
  IF b.state = "half-open" THEN [b EXCEPT !.state = "closed", !.failureCount = 0] ELSE b

\* The operation threw (L110-123).
BreakerFailure(b) ==
  [state |-> IF b.failureCount + 1 >= FailureThreshold THEN "open" ELSE b.state,
   failureCount |-> b.failureCount + 1,
   since |-> 0]

\* Every error counts as transient.
isRetryableError_All(e) == TRUE

\* isRetryableError (L189-206): the message names a transient condition.
isRetryableError(e) == e = "retryable"

\* The catch of withRetry (L47-66) after the attempt-th invocation threw e.
RetryDecision(attempt, e) ==
  IF attempt = RetryMaxAttempts THEN "throw"
  ELSE IF ~isRetryableError(e) THEN "throw"
  ELSE "sleep"

\* The three entry points: withCircuitBreaker, withRetry and withResilience
\* (the breaker around the retry, L130-141).
Kinds == {"breaker", "retry", "resilience"}
Guarded(k) == k \in {"breaker", "resilience"}
Retried(k) == k \in {"retry", "resilience"}

InFlight(r) == r.pc \in {"running", "sleep"}

\* How a call that is let through found the breaker.
Via(b) ==
  IF b.state = "open" THEN "probe"
  ELSE IF b.state = "closed" THEN "closed"
  ELSE IF \E p \in Ops : InFlight(ops[p]) /\ ops[p].via = "probe" THEN "besideProbe"
  ELSE "half-open"

\* The call is made: the breaker check if there is one, then the first
\* invocation of the operation.
OpStart(o, k) ==
  /\ ops[o].pc = "idle"
  /\ IF o = 1 THEN TRUE ELSE ops[o - 1].pc # "idle"
  /\ LET adm == IF Guarded(k) THEN BreakerAdmit(circuitBreaker)
                ELSE [admitted |-> TRUE, cb |-> circuitBreaker]
     IN /\ circuitBreaker' = adm.cb
        /\ ops' = [ops EXCEPT ![o] =
              IF adm.admitted
                THEN [@ EXCEPT !.pc = "running", !.kind = k, !.attempt = 1,
                        !.via = IF Guarded(k) THEN Via(circuitBreaker) ELSE "none",
                        !.drop = circuitBreaker.failureCount - adm.cb.failureCount]
                ELSE [@ EXCEPT !.pc = "done", !.kind = k, !.result = "circuitOpen"]]
  /\ UNCHANGED <<inside, chat>>
  /\ UNCHANGED aside

\* A breaker that is told of every failed attempt.
BreakerAfter_EveryAttempt(k, decision, b) ==
  IF ~Guarded(k) THEN b
  ELSE IF decision = "return" THEN BreakerSuccess(b)
  ELSE BreakerFailure(b)

\* What the breaker makes of one settling of the operation: withResilience
\* puts the breaker around the retry (L136-140), so an attempt that is retried
\* does not reach it.
BreakerAfter(k, decision, b) ==
  IF ~Guarded(k) \/ decision = "sleep" THEN b
  ELSE IF decision = "return" THEN BreakerSuccess(b)
  ELSE BreakerFailure(b)

\* The operation settles with e: "ok", or an error that is retryable or not.
OpReturns(o, e) ==
  /\ ops[o].pc = "running"
  /\ LET r == ops[o]
         decision == IF e = "ok" THEN "return"
                     ELSE IF Retried(r.kind) THEN RetryDecision(r.attempt, e)
                     ELSE "throw"
         after == BreakerAfter(r.kind, decision, circuitBreaker)
         change == after.failureCount - circuitBreaker.failureCount
     IN /\ circuitBreaker' = after
        /\ ops' = [ops EXCEPT ![o] =
              [r EXCEPT !.pc = CASE decision = "sleep" -> "sleep" [] OTHER -> "done",
                        !.result = CASE decision = "sleep" -> @
                                     [] decision = "return" -> "ok"
                                     [] OTHER -> "failed",
                        !.last = e,
                        !.incs = IF change > 0 THEN @ + change ELSE @,
                        !.drop = IF change < 0 THEN @ - change ELSE @]]
  /\ UNCHANGED <<inside, chat>>
  /\ UNCHANGED aside

\* The backoff sleep of withRetry is over (L60-65): the next attempt.
OpRetry(o) ==
  /\ ops[o].pc = "sleep"
  /\ ops' = [ops EXCEPT ![o] = [@ EXCEPT !.pc = "running", !.attempt = @ + 1]]
  /\ UNCHANGED <<inside, circuitBreaker, chat>>
  /\ UNCHANGED aside

\* Date.now() moves on by one tick.
Elapse ==
  /\ circuitBreaker.since < RecoveryTimeout
  /\ circuitBreaker' = [circuitBreaker EXCEPT !.since = @ + 1]
  /\ UNCHANGED <<inside, ops, chat>>
  /\ UNCHANGED aside

\* -------------------------------------------------------------- Monitoring
\* updateSuccessRate (part_002 L139-145).
updateSuccessRate(m) ==
  IF m.totalRequests > 0
    THEN [m EXCEPT !.successRate = [num |-> m.successfulRequests, den |-> m.totalRequests]]
    ELSE m

\* recordRequestTime (L147-159): push, then keep the last MAX_REQUEST_TIMES.
\* averageResponseTime is the mean of the list and is not kept apart.
recordRequestTime(m, duration) ==
  LET pushed == Append(m.requestTimes, duration)
  IN [m EXCEPT !.requestTimes =
        IF Len(pushed) > MAX_REQUEST_TIMES
          THEN SubSeq(pushed, Len(pushed) - MAX_REQUEST_TIMES + 1, Len(pushed))
          ELSE pushed]

\* An error list that grows at its end.
recordError_Push(m, at, error) ==
  LET pushed == Append(m.recent, [at |-> at, message |-> error])
  IN [m EXCEPT !.count = @ + 1,
               !.recent = IF Len(pushed) > MAX_ERRORS
                            THEN SubSeq(pushed, 1, MAX_ERRORS) ELSE pushed]

\* recordError (L161-178): unshift, count, then keep the first MAX_ERRORS.
\* The timestamp of an entry is given by the number of the request.
recordError(m, at, error) ==
  LET unshifted == <<[at |-> at, message |-> error]>> \o m.recent
  IN [m EXCEPT !.count = @ + 1,
               !.recent = IF Len(unshifted) > MAX_ERRORS
                            THEN SubSeq(unshifted, 1, MAX_ERRORS) ELSE unshifted]

\* Monitoring.recordSuccess (L43-48).
recordSuccess(m, duration) ==
  recordRequestTime(
    updateSuccessRate([m EXCEPT !.totalRequests = @ + 1, !.successfulRequests = @ + 1]),
    duration)

\* Monitoring.recordFailure (L53-59).
recordFailure(m, duration, error) ==
  recordError(
    recordRequestTime(
      updateSuccessRate([m EXCEPT !.totalRequests = @ + 1, !.failedRequests = @ + 1]),
      duration),
    m.totalRequests + 1, error)

\* A summary that calls two issues unhealthy.
getHealthSummary_Strict(m, bs) ==
  LET issues == (IF m.successRate.num * 100 < MinSuccessRate * m.successRate.den
                   THEN {"lowSuccessRate"} ELSE {})
                \cup {x \in Contexts : bs[x] = "open"}
                \cup (IF m.count > MaxErrorCount THEN {"highErrorCount"} ELSE {})
  IN [status |-> IF issues = {} THEN "healthy"
                 ELSE IF Cardinality(issues) >= 2 THEN "unhealthy" ELSE "degraded",
      issues |-> issues]

\* getHealthSummary (L75-108) over getMetrics (L64-70), which takes the
\* breaker states from Resilience.getHealthStatus (part_004 L146-159).  An
\* issue is named by its kind, or by the context of the open breaker.
getHealthSummary(m, bs) ==
  LET issues == (IF m.successRate.num * 100 < MinSuccessRate * m.successRate.den
                   THEN {"lowSuccessRate"} ELSE {})
                \cup {x \in Contexts : bs[x] = "open"}
                \cup (IF m.count > MaxErrorCount THEN {"highErrorCount"} ELSE {})
  IN [status |-> IF issues = {} THEN "healthy"
                 ELSE IF Cardinality(issues) > 2 THEN "unhealthy" ELSE "degraded",
      issues |-> issues]

Durations == {1, 2}
Messages == {"TIMEOUT", "No messages provided"}

\* Someone calls Monitoring.recordSuccess(duration).
RecordSuccess(d) ==
  /\ Len(log.entries) < MaxRecorded
  /\ metrics' = recordSuccess(metrics, d)
  /\ log' = [log EXCEPT !.entries = Append(@, [ok |-> TRUE, duration |-> d, message |-> ""])]
  /\ UNCHANGED <<inside, circuitBreaker, ops, reqs, backoff, breakers, summary, capacity, pulse>>

\* Someone calls Monitoring.recordFailure(duration, context, error).
RecordFailure(d, e) ==
  /\ Len(log.entries) < MaxRecorded
  /\ metrics' = recordFailure(metrics, d, e)
  /\ log' = [log EXCEPT !.entries = Append(@, [ok |-> FALSE, duration |-> d, message |-> e])]
  /\ UNCHANGED <<inside, circuitBreaker, ops, reqs, backoff, breakers, summary, capacity, pulse>>

\* Monitoring.resetMetrics (L113-130).
ResetMetrics ==
  /\ log.resets = 0
  /\ metrics' = NoMetrics
  /\ log' = [entries |-> <<>>, resets |-> 1]
  /\ UNCHANGED <<inside, circuitBreaker, ops, reqs, backoff, breakers, summary, capacity, pulse>>

\* Monitoring.getHealthSummary is called.
GetHealthSummary ==
  /\ summary' = getHealthSummary(metrics, breakers)
  /\ UNCHANGED <<inside, circuitBreaker, ops, chat, backoff, breakers, log, capacity, pulse>>

\* What processChatRequest passes to Monitoring: Date.now() - startTime
\* (part_005 L73, L80, L86), every request taking one unit of time here, and
\* String(error) (L88).
Elapsed == 1
Reported == "chat-processing"

\* The metrics after n successes and then f failures were recorded, each
\* by processChatRequest: the counters, the rate of the last update, the
\* last MAX_ERRORS failures newest first and the last MAX_REQUEST_TIMES
\* durations.
Recorded(n, f) ==
  [totalRequests |-> n + f, successfulRequests |-> n, failedRequests |-> f,
   successRate |-> IF n + f > 0 THEN [num |-> n, den |-> n + f] ELSE [num |-> 1, den |-> 1],
   recent |-> [i \in 1..Min(f, MAX_ERRORS) |-> [at |-> n + f + 1 - i, message |-> Reported]],
   count |-> f,
   requestTimes |-> [i \in 1..Min(n + f, MAX_REQUEST_TIMES) |-> Elapsed]]

\* Counts on either side of the two thresholds: 18 and 19 successes with 1
\* failure, 949 and 950 with 50, 968 and 969 with 51.
SuccessCounts == {0, 18, 19, 949, 950, 968, 969}
FailureCounts == {0, 1, 50, 51}

\* ---------------------------------------------------------- retry backoff
\* Math.pow for a whole exponent.
RECURSIVE Pow(_, _)
Pow(b, e) == IF e = 0 THEN 1 ELSE b * Pow(b, e - 1)

\* A delay that is never capped.
calculateBackoffDelay_Uncapped(attempt, baseDelay) ==
  baseDelay * Pow(backoffMultiplier, attempt - 1)

\* calculateBackoffDelay (L208-215).
calculateBackoffDelay(attempt, baseDelay) ==
  Min(baseDelay * Pow(backoffMultiplier, attempt - 1), maxDelay)

\* The base delays callers pass (part_005 L53, L68) and the default (L20).
BaseDelays == {500, 1000}

\* withRetry(operation, context, {maxAttempts, baseDelay}) is called and
\* invokes the operation (L40-45).
RetryCall(m, b) ==
  /\ backoff.pc = "idle"
  /\ backoff' = [backoff EXCEPT !.pc = "running", !.maxAttempts = m, !.baseDelay = b,
                                !.attempt = 1]
  /\ UNCHANGED <<inside, circuitBreaker, ops, chat, breakers, summary, log, capacity, pulse>>

\* The attempt settles (L45-66): returned, or thrown on the last attempt
\* or for an error that is not retryable, or followed by the backoff sleep.
RetryAttempt(e) ==
  /\ backoff.pc = "running"
  /\ backoff' =
       IF e = "ok" THEN [backoff EXCEPT !.pc = "done", !.result = "ok"]
       ELSE IF backoff.attempt = backoff.maxAttempts \/ ~isRetryableError(e)
              THEN [backoff EXCEPT !.pc = "done", !.result = "failed"]
              ELSE [backoff EXCEPT !.pc = "sleep",
                      !.delay = calculateBackoffDelay(backoff.attempt, backoff.baseDelay)]
  /\ UNCHANGED <<inside, circuitBreaker, ops, chat, breakers, summary, log, capacity, pulse>>

\* The sleep is over (L66, L43): the next attempt.
RetryWake ==
  /\ backoff.pc = "sleep"
  /\ backoff' = [backoff EXCEPT !.pc = "running", !.attempt = @ + 1]
  /\ UNCHANGED <<inside, circuitBreaker, ops, chat, breakers, summary, log, capacity, pulse>>

\* ------------------------------------------------------------- ChatService

SetReq(r, q) == reqs' = [reqs EXCEPT ![r] = q]

\* An error response that is not recorded.
handleError_Silent(r, q) ==
  /\ UNCHANGED metrics
  /\ SetReq(r, [q EXCEPT !.pc = "done", !.response = "error"])

\* The outer catch (part_005 L83-91): the failure is recorded and
\* ErrorHandler.handleError builds the error response.
handleError(r, q) ==
  /\ metrics' = recordFailure(metrics, Elapsed, Reported)
  /\ SetReq(r, [q EXCEPT !.pc = "done", !.response = "error"])

\* processChatRequest(req, appId) up to the lifecycle (part_005 L31-45): the
\* body is parsed and the app looked up; neither touches the state here.
ReqStart(r, a) ==
  /\ reqs[r].pc = "idle"
  /\ IF r = 1 THEN TRUE ELSE reqs[r - 1].pc # "idle"
  /\ \E ok \in BOOLEAN :
       IF ok
         THEN /\ SetReq(r, [reqs[r] EXCEPT !.app = a, !.pc = "lifecycle"])
              /\ UNCHANGED metrics
         ELSE handleError(r, [reqs[r] EXCEPT !.app = a])
  /\ UNCHANGED <<inside, circuitBreaker, ops>>
  /\ UNCHANGED aside

\* await this.manageStreamLifecycle(appId) begins (L47).
ReqManage(r) ==
  /\ reqs[r].pc = "lifecycle"
  /\ manageStreamLifecycle(reqs[r].app)
  /\ SetReq(r, [reqs[r] EXCEPT !.pc = "managing"])
  /\ UNCHANGED <<metrics, circuitBreaker, ops>>
  /\ UNCHANGED aside

\* manageStreamLifecycle has settled: it threw if a store command did or if
\* the wait gave up (L104-108).
ReqManaged(r) ==
  /\ reqs[r].pc = "managing"
  /\ mgr.pc = "done"
  /\ mgr' = IdleMgr
  /\ IF mgr.result \in {"idle", "true"}
       THEN /\ SetReq(r, [reqs[r] EXCEPT !.pc = "mcp"])
            /\ UNCHANGED metrics
       ELSE handleError(r, reqs[r])
  /\ UNCHANGED <<token, record, streamHealth, activeStreams, streamLocks, calls, faults>>
  /\ UNCHANGED <<circuitBreaker, ops>>
  /\ UNCHANGED aside

\* The MCP request has settled (L50-55); then withResilience for the context
\* "streaming" runs without an await up to the first one inside
\* sendMessageWithStreaming (L59-70).  The breaker of the MCP context is not
\* part of the state.
ReqMcp(r) ==
  /\ reqs[r].pc = "mcp"
  /\ \E ok \in BOOLEAN :
       IF ~ok
         THEN /\ handleError(r, reqs[r])
              /\ UNCHANGED <<inside, circuitBreaker>>
         ELSE LET adm == BreakerAdmit(circuitBreaker)
              IN /\ circuitBreaker' = adm.cb
                 /\ UNCHANGED metrics
                 /\ IF ~adm.admitted
                      THEN /\ SetReq(r, [reqs[r] EXCEPT !.pc = "fallback"])
                           /\ UNCHANGED inside
                      ELSE \E c \in Calls :
                             /\ sendMessageWithStreaming(c, reqs[r].app)
                             /\ SetReq(r, [reqs[r] EXCEPT !.pc = "streaming", !.call = c,
                                                          !.attempt = 1])
  /\ UNCHANGED ops
  /\ UNCHANGED aside

\* What sendMessageWithStreaming threw: a store error may or may not carry
\* one of the messages isRetryableError looks for, the others do not.
Thrown(res) == IF res = "rejected" THEN {"retryable", "fatal"} ELSE {"fatal"}

\* The call has settled (L59-82).  A result is returned through withRetry
\* and the breaker, the success recorded and response() called on it; the
\* handle of an existing stream answers after one more store command.  An
\* error goes through the catch of withRetry and, when that throws, through
\* the breaker to the inner catch.
ReqSettled(r) ==
  /\ reqs[r].pc = "streaming"
  /\ calls[reqs[r].call].pc = "done"
  /\ LET res == calls[reqs[r].call].result
     IN IF res \in {"stream", "synthetic", "existing"}
          THEN /\ circuitBreaker' = BreakerAfter("resilience", "return", circuitBreaker)
               /\ metrics' = recordSuccess(metrics, Elapsed)
               /\ SetReq(r, IF res = "existing"
                              THEN [reqs[r] EXCEPT !.pc = "resume"]
                              ELSE [reqs[r] EXCEPT !.pc = "done", !.response = res])
          ELSE \E e \in Thrown(res) :
                 LET decision == RetryDecision(reqs[r].attempt, e)
                 IN /\ circuitBreaker' = BreakerAfter("resilience", decision, circuitBreaker)
                    /\ UNCHANGED metrics
                    /\ SetReq(r, [reqs[r] EXCEPT !.pc = IF decision = "sleep"
                                                          THEN "retrySleep" ELSE "fallback"])
  /\ UNCHANGED <<inside, ops>>
  /\ UNCHANGED aside

\* The backoff sleep is over: sendMessageWithStreaming is called again.
ReqRetry(r) ==
  /\ reqs[r].pc = "retrySleep"
  /\ \E c \in Calls :
       /\ sendMessageWithStreaming(c, reqs[r].app)
       /\ SetReq(r, [reqs[r] EXCEPT !.pc = "streaming", !.call = c, !.attempt = @ + 1])
  /\ UNCHANGED <<metrics, circuitBreaker, ops>>
  /\ UNCHANGED aside

\* response() of the handle getStream returned (part_001 L91-105), called by
\* return resumableStream.response() (part_005 L74) without await: when
\* resumeExistingStream throws or finds no stream any more, the promise
\* processChatRequest returned rejects, past both of its catch blocks.
ReqResume(r) ==
  /\ reqs[r].pc = "resume"
  /\ \E ok \in StoreOutcomes :
       /\ Charge(ok)
       /\ SetReq(r, [reqs[r] EXCEPT !.pc = "done",
                      !.response = IF ok /\ hasExistingStream(record, reqs[r].app)
                                     THEN "stream" ELSE "threw"])
  /\ UNCHANGED <<token, record, streamHealth, activeStreams, streamLocks, calls, mgr>>
  /\ UNCHANGED <<metrics, circuitBreaker, ops>>
  /\ UNCHANGED aside

\* handleStreamingFallback (part_005 L77-81, L116-137).
ReqFallback(r) ==
  /\ reqs[r].pc = "fallback"
  /\ \E out \in FallbackOutcomes :
       IF FallbackResult(out) = "synthetic"
         THEN /\ metrics' = recordSuccess(metrics, Elapsed)
              /\ SetReq(r, [reqs[r] EXCEPT !.pc = "done", !.response = "synthetic"])
         ELSE handleError(r, reqs[r])
  /\ UNCHANGED <<inside, circuitBreaker, ops>>
  /\ UNCHANGED aside

\* The steps of a request after its start.
ChatSteps ==
  \/ \E r \in Reqs : ReqManage(r)
  \/ \E r \in Reqs : ReqManaged(r)
  \/ \E r \in Reqs : ReqMcp(r)
  \/ \E r \in Reqs : ReqSettled(r)
  \/ \E r \in Reqs : ReqRetry(r)
  \/ \E r \in Reqs : ReqFallback(r)

\* ------------------------------------------------------------------ specs
\* Sessions are interchangeable: a call is for a session some earlier call
\* was for, or for the next one no call was for yet.
Fresh(a) == \A c \in Calls : calls[c].app < a
Known(a) == IF a = 1 THEN TRUE ELSE ~Fresh(a - 1)

\* A call that found an operation in flight for its session.
WaiterSteps ==
  \/ \E c \in Calls : WaitLockResume(c)
  \/ \E c \in Calls : WaitIsRunning(c)
  \/ \E c \in Calls : WaitGetStream(c)

\* A call that found the token of its session running.
TakeoverSteps ==
  \/ \E c \in Calls : EsStop(c)
  \/ \E c \in Calls : EsWait(c)
  \/ \E c \in Calls : EsForce(c)

\* The steps every call takes, and those of its producer.
CallSteps ==
  \/ \E c \in Calls : EsIsRunning(c)
  \/ \E c \in Calls : EsClear(c)
  \/ \E c \in Calls : EsCatch(c)
  \/ \E c \in Calls : Invoke(c)
  \/ \E c \in Calls : SetStream(c)
  \/ \E c \in Calls : Start(c)
  \/ \E c \in Calls : Fallback(c)
  \/ \E c \in Calls : OnChunk(c)
  \/ \E c \in Calls : OnStepFinish(c)
  \/ \E c \in Calls : OnFinish(c)
  \/ \E c \in Calls : OnError(c)
  \/ \E c \in Calls : ProducerCancelled(c)
  \/ \E a \in Apps : ExpireToken(a)

\* Spec: up to MaxCalls - 1 calls for any sessions on an instance that
\* starts empty, with the stop command, the sweep and the passing of time.
Next ==
  \/ \E c \in 1..(MaxCalls - 1), a \in Apps : Known(a) /\ CallStart(c, a)
  \/ \E a \in Apps : StopCommand(a)
  \/ \E a \in Apps : SweepEntry(a)
  \/ Tick
  \/ WaiterSteps
  \/ TakeoverSteps
  \/ CallSteps

Spec == Init /\ [][Next]_vars

\* SpecSession: up to MaxCalls calls, all for one session, within less than
\* STREAM_TIMEOUT of each other.
NextSession ==
  \/ \E c \in Calls : CallStart(c, 1)
  \/ WaiterSteps
  \/ TakeoverSteps
  \/ CallSteps

SpecSession == Init /\ [][NextSession]_vars

\* SpecPool: the pool is full of sessions that were admitted one after the
\* other and are streaming; one more call, for any session, arrives.
InitPool ==
  LET Admitted(a) == a <= MAX_CONCURRENT_STREAMS
  IN /\ token = [a \in Apps |-> IF Admitted(a) THEN "running" ELSE "absent"]
     /\ record = [a \in Apps |-> IF Admitted(a) THEN a ELSE 0]
     /\ streamHealth = [a \in Apps |-> IF Admitted(a) THEN NewHealth ELSE NoHealth]
     /\ activeStreams = [i \in 1..MAX_CONCURRENT_STREAMS |-> i]
     /\ streamLocks = [a \in Apps |-> NoLock]
     /\ calls = [c \in Calls |->
          IF Admitted(c)
            THEN [IdleCall EXCEPT !.pc = "done", !.app = c, !.result = "stream",
                                  !.subs = 2, !.prod = "active"]
            ELSE IdleCall]
     /\ mgr = IdleMgr
     /\ faults = NoFaults
     /\ circuitBreaker = getOrCreateCircuitBreaker
     /\ ops = IdleOps
     /\ reqs = IdleReqs
     /\ metrics = NoMetrics
     /\ backoff = IdleBackoff
     /\ breakers = NoBreakers
     /\ summary = NoSummary
     /\ log = NoLog
     /\ capacity = MAX_CONCURRENT_STREAMS
     /\ pulse = NoPulse

NextPool ==
  \/ \E c \in Calls, a \in Apps : Known(a) /\ CallStart(c, a)
  \/ \E c \in Calls : ReliefStep(c)
  \/ \E c \in Calls : Reserve(c)
  \/ \E a \in Apps : SweepEntry(a)
  \/ Tick
  \/ TakeoverSteps
  \/ CallSteps

SpecPool == InitPool /\ [][NextPool]_vars

\* SpecRelief: a build whose pool holds one session more.  The pool is full:
\* all sessions but the last are streaming, the stream of the last one was
\* aborted and has ended, which leaves its slot and its health record to the
\* sweep (L467-476).  They were admitted in any order.  One more call, for
\* any session, arrives.
Admissions(n) == {p \in [1..n -> 1..n] : \A i, j \in 1..n : i # j => p[i] # p[j]}
InitRelief ==
  LET n == MAX_CONCURRENT_STREAMS + 1
      Streaming(a) == a < n
  IN /\ capacity = n
     /\ pulse = NoPulse
     /\ activeStreams \in Admissions(n)
     /\ token = [a \in Apps |-> IF Streaming(a) THEN "running" ELSE "absent"]
     /\ record = [a \in Apps |-> IF Streaming(a) THEN a ELSE 0]
     /\ streamHealth = [a \in Apps |-> IF a <= n THEN NewHealth ELSE NoHealth]
     /\ streamLocks = [a \in Apps |-> NoLock]
     /\ calls = [c \in Calls |->
          IF Streaming(c)
            THEN [IdleCall EXCEPT !.pc = "done", !.app = c, !.result = "stream",
                                  !.subs = 2, !.prod = "active"]
            ELSE IdleCall]
     /\ mgr = IdleMgr
     /\ faults = NoFaults
     /\ circuitBreaker = getOrCreateCircuitBreaker
     /\ ops = IdleOps
     /\ reqs = IdleReqs
     /\ metrics = NoMetrics
     /\ backoff = IdleBackoff
     /\ breakers = NoBreakers
     /\ summary = NoSummary
     /\ log = NoLog

NextRelief ==
  \/ \E c \in Calls, a \in Apps : CallStart(c, a)
  \/ \E c \in Calls : ReliefStep(c)
  \/ \E c \in Calls : Reserve(c)
  \/ TakeoverSteps
  \/ CallSteps

SpecRelief == InitRelief /\ [][NextRelief]_vars

\* SpecHeartbeat: the stream of session 1 has just been set up, in no time:
\* lastKeepAlive was set (L442) and the token written (L518) at second 0.  Its
\* chunks arrive at any seconds until it finishes.
InitHeartbeat ==
  /\ token = [a \in Apps |-> IF a = 1 THEN "running" ELSE "absent"]
  /\ record = [a \in Apps |-> IF a = 1 THEN 1 ELSE 0]
  /\ streamHealth = [a \in Apps |-> IF a = 1 THEN NewHealth ELSE NoHealth]
  /\ activeStreams = <<1>>
  /\ streamLocks = [a \in Apps |-> NoLock]
  /\ calls = [c \in Calls |->
       IF c = 1
         THEN [IdleCall EXCEPT !.pc = "done", !.app = 1, !.result = "stream",
                               !.subs = 2, !.prod = "active"]
         ELSE IdleCall]
  /\ mgr = IdleMgr
  /\ faults = NoFaults
  /\ circuitBreaker = getOrCreateCircuitBreaker
  /\ ops = IdleOps
  /\ reqs = IdleReqs
  /\ metrics = NoMetrics
  /\ backoff = IdleBackoff
  /\ breakers = NoBreakers
  /\ summary = NoSummary
  /\ log = NoLog
  /\ capacity = MAX_CONCURRENT_STREAMS
  /\ pulse = [NoPulse EXCEPT !.expires = TOKEN_TTL]

NextHeartbeat ==
  \/ OnChunkAt(1)
  \/ Second
  \/ OnFinish(1)

SpecHeartbeat == InitHeartbeat /\ [][NextHeartbeat]_vars

\* SpecStop: one call and one manageStreamLifecycle run for its session.
NextStop ==
  \/ CallStart(1, 1)
  \/ MgrStart(1)
  \/ MgrStop
  \/ MgrWait
  \/ MgrClear
  \/ \E a \in Apps : SweepEntry(a)
  \/ Tick
  \/ CallSteps

SpecStop == Init /\ [][NextStop]_vars

\* SpecResilience: up to MaxOps calls of withCircuitBreaker, withRetry and
\* withResilience for one context, overlapping or not, while time passes.
NextResilience ==
  \/ \E o \in Ops, k \in Kinds : OpStart(o, k)
  \/ \E o \in Ops, e \in {"ok", "retryable", "fatal"} : OpReturns(o, e)
  \/ \E o \in Ops : OpRetry(o)
  \/ Elapse

SpecResilience == Init /\ [][NextResilience]_vars

\* SpecBackoff: one withRetry call, given any maxAttempts up to
\* MaxBackoffAttempts and one of the base delays.
NextBackoff ==
  \/ \E m \in 1..MaxBackoffAttempts, b \in BaseDelays : RetryCall(m, b)
  \/ \E e \in {"ok", "retryable", "fatal"} : RetryAttempt(e)
  \/ RetryWake

SpecBackoff == Init /\ [][NextBackoff]_vars

\* SpecMonitoring: outcomes are recorded, with any duration and message, and
\* the metrics reset.
NextMonitoring ==
  \/ \E d \in Durations : RecordSuccess(d)
  \/ \E d \in Durations, e \in Messages : RecordFailure(d, e)
  \/ ResetMetrics

SpecMonitoring == Init /\ [][NextMonitoring]_vars

\* SpecHealth: getHealthSummary is called after some number of successes
\* and then of failures were recorded, the breakers being in any states.
InitHealth ==
  /\ InitRest
  /\ \E n \in SuccessCounts, f \in FailureCounts : metrics = Recorded(n, f)
  /\ breakers \in [Contexts -> {"none", "closed", "open", "half-open"}]

NextHealth == GetHealthSummary

SpecHealth == InitHealth /\ [][NextHealth]_vars

\* SpecChat: up to MaxReqs chat requests for one session.
NextChat ==
  \/ \E r \in Reqs : ReqStart(r, 1)
  \/ ChatSteps
  \/ \E r \in Reqs : ReqResume(r)
  \/ MgrStop
  \/ MgrWait
  \/ MgrClear
  \/ Elapse
  \/ WaiterSteps
  \/ TakeoverSteps
  \/ CallSteps

SpecChat == Init /\ [][NextChat]_vars

\* One request for a session that has no token, and the call it makes, up
\* to the end of its producer.
OneRequest ==
  \/ ReqStart(1, 1)
  \/ ReqManage(1)
  \/ ReqManaged(1)
  \/ ReqMcp(1)
  \/ ReqSettled(1)
  \/ ReqFallback(1)
  \/ \E c \in Calls : EsIsRunning(c)
  \/ \E c \in Calls : EsClear(c)
  \/ \E c \in Calls : EsCatch(c)
  \/ \E c \in Calls : Invoke(c)
  \/ \E c \in Calls : SetStream(c)
  \/ \E c \in Calls : Start(c)
  \/ \E c \in Calls : Fallback(c)
  \/ \E c \in Calls : OnChunk(c)
  \/ \E c \in Calls : OnStepFinish(c)
  \/ \E a \in Apps : ExpireToken(a)

\* SpecFinish: the producer of the request ends by finishing.
NextFinish ==
  \/ OneRequest
  \/ \E c \in Calls : OnFinish(c)

SpecFinish == Init /\ [][NextFinish]_vars

\* SpecError: the producer of the request ends by reporting a failure.
NextError ==
  \/ OneRequest
  \/ \E c \in Calls : OnError(c)

SpecError == Init /\ [][NextError]_vars

TypeOK ==
  /\ token \in [Apps -> {"absent", "running"}]
  /\ record \in [Apps -> 0..MaxCalls]
  /\ \A a \in Apps : streamHealth[a].idle <= streamHealth[a].age
  /\ faults.cleanup + faults.cmd <= MaxFaults

\* ================================================================ claims
\* C1: the connection pool never holds more sessions than its capacity N.
C1_PoolBounded == Len(activeStreams) <= MAX_CONCURRENT_STREAMS

\* The relief has freed no slot: a call is about to reserve one while the
\* pool is full.
C1_Witness ==
  /\ Len(activeStreams) = MAX_CONCURRENT_STREAMS
  /\ \E c \in Calls : calls[c].pc = "reserve" /\ ~InPool(activeStreams, App(c))

\* C2: at any time at most one producer is active for a session; a new
\* stream for the session begins only after the previous one has stopped or
\* been forcibly cleaned up.
C2_SingleProducer ==
  LET Producing(c) == calls[c].prod = "active" /\ ~calls[c].aborted
  IN \A c, d \in Calls : (c # d /\ Producing(c) /\ Producing(d)) => App(c) # App(d)

\* C3: at most one stream lifecycle operation is in progress for a session
\* at any moment on one instance.
C3_SingleOperation ==
  \A c, d \in Calls : (c # d /\ InOp(c) /\ InOp(d)) => App(c) # App(d)

\* C4: a call that finds an operation in flight for its session waits for it;
\* if the token then reads running and a stream record exists, the call
\* returns the existing stream, and as a waiter it reserves no slot, writes
\* no token and no health record, and invokes no producer.
C4_WaiterReturnsExisting ==
  [][\A c \in Calls :
      LET a == calls'[c].app
          quietly == /\ UNCHANGED <<activeStreams, token, streamHealth, streamLocks>>
                     /\ calls'[c].prod = "none" /\ calls'[c].subs = 0
      IN /\ (calls[c].pc = "idle" /\ calls'[c].pc # "idle" /\ streamLocks[a] # NoLock)
              => (calls'[c].pc = "waitLock" /\ calls'[c].awaiting = streamLocks[a] /\ quietly)
         /\ (calls[c].pc = "waitLock" /\ calls'[c].pc # "waitLock")
              => (calls[calls[c].awaiting].pc = "done" /\ quietly)
         /\ (calls[c].pc = "w_isRunning" /\ calls'[c].pc = "w_getStream")
              => (token[a] = "running" /\ quietly)
         /\ (calls[c].pc = "w_getStream" /\ calls'[c] # calls[c] /\ faults' = faults
               /\ record[a] # 0)
              => (calls'[c].pc = "done" /\ calls'[c].result = "existing" /\ quietly)
         /\ (calls[c].result # "existing" /\ calls'[c].result = "existing")
              => (calls[c].pc = "w_getStream" /\ record[a] # 0) ]_vars

\* A waiter has returned the existing stream of a producer that is running.
C4_Witness ==
  \E c, d \in Calls : /\ calls[c].result = "existing"
                      /\ App(d) = App(c) /\ calls[d].prod = "active"
                      /\ record[App(c)] = d

\* C5: when the pool is full and reserving still fails after the relief,
\* the call fails with the capacity error: no producer was invoked, neither
\* the token nor the health record of its session was written, and the lock
\* entry of the session is removed.
C5_CapacityError ==
  [][\A c \in Calls :
      LET a == calls[c].app
      IN /\ (calls'[c] # calls[c] /\ (calls'[c].pc = "relief" \/ calls'[c].pc = "reserve"
                                    \/ calls'[c].result = "capacity"))
              => /\ token'[calls'[c].app] = "running" => token[calls'[c].app] = "running"
                 /\ streamHealth'[calls'[c].app].has
                      => streamHealth'[calls'[c].app] = streamHealth[calls'[c].app]
                 /\ calls'[c].prod = "none" /\ calls'[c].subs = 0
         /\ (calls[c].result = "none" /\ calls'[c].result = "capacity")
              => /\ calls[c].pc = "reserve"
                 /\ ~canStartNewStream(activeStreams')
                 /\ streamLocks'[a] = NoLock
         /\ (calls[c].pc = "reserve" /\ calls'[c].pc = "es_isRunning")
              => (canStartNewStream(activeStreams) /\ InPool(activeStreams', a)) ]_vars

\* A call has failed with the capacity error.
C5_Witness ==
  \E c \in Calls : /\ calls[c].result = "capacity"
                   /\ Len(activeStreams) = MAX_CONCURRENT_STREAMS
                   /\ streamLocks[App(c)] = NoLock

\* C6: once the stream of an admitted session has reached a terminal
\* outcome, the session leaves the pool.  Stated on the states from which
\* nothing is left to run: every call has settled, every producer has ended
\* and no health record is left for the sweep to find; there the pool is
\* empty.
C6_SlotReleased ==
  ( /\ \A c \in Calls : calls[c].pc \in {"idle", "done"} /\ calls[c].prod # "active"
    /\ \A a \in Apps : ~streamHealth[a].has )
  => activeStreams = <<>>

\* C7: stopStream followed by waitForStreamToStop returns true when the
\* producer of the session reaches a cancellation checkpoint, and does not
\* return true while the producer has not reached one.
C7_StopThenWait == mgr.result = "true" => mgr.quiet

\* C8: waitForStreamToStop ends after at most maxAttempts reads of the
\* token; it returns true exactly when a read saw the token absent, false
\* when maxAttempts reads saw it running, and it never writes the token.
C8_WaitTerminates ==
  [][ /\ mgr'.attempts <= MaxAttempts
      /\ mgr'.attempts # mgr.attempts
           => LET running == token[mgr.app] = "running"
              IN /\ mgr.pc = "wait"
                 /\ mgr'.attempts = mgr.attempts + 1
                 /\ token' = token
                 /\ mgr'.result = "true" <=> ~running
                 /\ mgr'.result = "false" <=> (running /\ mgr'.attempts = MaxAttempts)
                 /\ mgr'.pc = "wait" <=> (running /\ mgr'.attempts < MaxAttempts) ]_vars

\* The wait gave up: maxAttempts reads all saw the token running.
C8_Witness == mgr.result = "false" /\ mgr.attempts = MaxAttempts

\* C9: from every state and for every session, clearStreamState twice, or
\* forceCleanupStream twice, leaves the token, the health records and the
\* pool as one call does (the one whose store commands got further).
C9_CleanupIdempotent ==
  \A a \in Apps :
    /\ clearStreamState(clearStreamState(token, a), a) = clearStreamState(token, a)
    /\ \A o1, o2 \in {"ok", "del", "aux"} :
         LET once == forceCleanupStream(Local, a, IF o1 = "del" THEN o2 ELSE o1)
             twice == forceCleanupStream(forceCleanupStream(Local, a, o1), a, o2)
         IN /\ twice.token = once.token
            /\ twice.health = once.health
            /\ twice.active = once.active

\* A force cleanup is about to run on a session that has a token, a health
\* record and a slot.
C9_Witness ==
  \E c \in Calls : /\ calls[c].pc = "es_force"
                   /\ token[App(c)] = "running"
                   /\ streamHealth[App(c)].has
                   /\ InPool(activeStreams, App(c))

\* C10: forceCleanupStream never fails its caller: whichever of its store
\* commands fails, the call completes and the caller goes on.
C10_CleanupNeverFails ==
  [][ /\ \A a \in Apps : \A out \in {"ok", "del", "aux"} :
           ~forceCleanupStream(Local, a, out).threw
      /\ faults'.cleanup > faults.cleanup
           => \A c \in Calls :
                calls'[c] # calls[c]
                  => /\ calls'[c].result # "cleanupError"
                     /\ calls[c].pc = "es_force" => calls'[c].pc = "es_clear"
                     /\ calls[c].pc = "es_catch" => calls'[c].pc = "invoke"
                     /\ calls[c].pc = "relief"
                          => calls'[c].pc \in {"relief", "reserve"} ]_vars

\* A call for a new session was admitted by the relief although the force
\* cleanup of one of the two oldest sessions failed: that session kept its
\* slot.
C10_Witness ==
  /\ faults.cleanup > 0
  /\ \E c \in Calls : /\ App(c) > MAX_CONCURRENT_STREAMS
                      /\ calls[c].pc \in OpPcs \ {"relief", "reserve"}
                      /\ \E a \in 1..MAX_CONCURRENT_STREAMS : InPool(activeStreams, a)

\* C11: when forceCleanupStream returns, the session has no health record,
\* holds no slot and its token is deleted, whether or not one of the store
\* deletions it issues fails.  Stated for every reachable state the function
\* may be called in, every session and every outcome of its store commands.
C11_CleanupComplete ==
  \A a \in Apps : \A out \in {"ok", "del", "aux"} :
    LET fc == forceCleanupStream(Local, a, out)
    IN /\ fc.token[a] = "absent"
       /\ ~fc.health[a].has
       /\ ~InPool(fc.active, a)

\* C16: once failureThreshold failures have been counted the breaker is
\* open, a closed breaker has counted fewer, and a call made while the
\* breaker is open and less than recoveryTimeout has passed since the last
\* recorded failure is rejected with the circuit-open error without invoking
\* the operation.
C16_OpenRejects ==
  [][ /\ circuitBreaker.state = "closed" => circuitBreaker.failureCount < FailureThreshold
      /\ (circuitBreaker'.failureCount > circuitBreaker.failureCount
           /\ circuitBreaker'.failureCount >= FailureThreshold)
            => (circuitBreaker'.state = "open" /\ circuitBreaker'.since = 0)
      /\ \A o \in Ops :
           (ops[o].pc = "idle" /\ ops'[o].pc # "idle" /\ Guarded(ops'[o].kind)
             /\ circuitBreaker.state = "open" /\ circuitBreaker.since < RecoveryTimeout)
            => (ops'[o].result = "circuitOpen" /\ ops'[o].attempt = 0
                /\ circuitBreaker' = circuitBreaker) ]_vars

\* A call was rejected by the open breaker some time after the failures
\* that opened it.
C16_Witness ==
  /\ circuitBreaker.state = "open" /\ circuitBreaker.since > 0
  /\ \E o \in Ops : ops[o].result = "circuitOpen" /\ ops[o].attempt = 0
  /\ \E o \in Ops : ops[o].kind = "breaker" /\ ops[o].result = "failed"

\* C17: while the probe of a half-open breaker is in flight, no other call
\* for the context invokes its operation.
C17_SingleProbe == \A o \in Ops : ops[o].via = "besideProbe" => ops[o].attempt = 0

\* C18: when the breaker is half-open, a success closes it with failure
\* count 0, and a failure opens it again with the time of that failure.
C18_HalfOpen ==
  circuitBreaker.state = "half-open"
    => /\ BreakerSuccess(circuitBreaker).state = "closed"
       /\ BreakerSuccess(circuitBreaker).failureCount = 0
       /\ BreakerFailure(circuitBreaker).state = "open"
       /\ BreakerFailure(circuitBreaker).since = 0

\* C19 as stated: one withResilience call changes the failure count by 0
\* when an attempt succeeds and by 1 when the retries end in failure.
C19_CountChange ==
  \A o \in Ops :
    ops[o].kind = "resilience"
      => LET change == ops[o].incs - ops[o].drop
         IN /\ change \in {0, 1}
            /\ ops[o].result = "ok" => change = 0
            /\ change = 1 => ops[o].result = "failed"

\* C19: one withResilience call increments the failure count at most once:
\* not at all when an attempt succeeds, however many attempts failed before,
\* and once when the retries end in failure.  Besides, it may reset the
\* count to 0, as the probe of an open breaker or by succeeding while the
\* breaker is half-open.
C19_CountIncrement ==
  \A o \in Ops :
    ops[o].kind = "resilience"
      => /\ ops[o].incs <= 1
         /\ ops[o].incs = 1 <=> ops[o].result = "failed"
         /\ ops[o].drop > 0 => (ops[o].via = "probe" \/ ops[o].result = "ok")

\* One call succeeded after a failed attempt, another failed for good.
C19_Witness ==
  \E o, p \in Ops :
    /\ ops[o].kind = "resilience" /\ ops[o].result = "ok" /\ ops[o].attempt > 1
    /\ ops[p].kind = "resilience" /\ ops[p].result = "failed"
    /\ ops[p].attempt = RetryMaxAttempts

\* C20: withRetry invokes the operation at most maxAttempts times; the
\* first success is returned; an error that is not retryable is thrown at
\* once; a retryable one is followed by another attempt while fewer than
\* maxAttempts were made, and thrown when they are exhausted.
C20_Retry ==
  [][\A o \in Ops :
      Retried(ops'[o].kind)
        => /\ ops'[o].attempt <= RetryMaxAttempts
           /\ (ops[o].pc = "running" /\ ops'[o].pc # "running")
                => /\ ops'[o].attempt = ops[o].attempt
                   /\ ops'[o].last = "ok" <=> ops'[o].result = "ok"
                   /\ ops'[o].last = "ok" => ops'[o].pc = "done"
                   /\ ops'[o].last = "fatal"
                        => (ops'[o].pc = "done" /\ ops'[o].result = "failed")
                   /\ (ops'[o].last = "retryable" /\ ops[o].attempt < RetryMaxAttempts)
                        => ops'[o].pc = "sleep"
                   /\ (ops'[o].last = "retryable" /\ ops[o].attempt = RetryMaxAttempts)
                        => (ops'[o].pc = "done" /\ ops'[o].result = "failed")
           /\ (ops[o].pc = "sleep" /\ ops'[o].pc # "sleep")
                => (ops'[o].pc = "running" /\ ops'[o].attempt = ops[o].attempt + 1)
           /\ ops[o].pc = "done" => ops'[o] = ops[o] ]_vars

\* The attempts of a withRetry call were exhausted by retryable errors.
C20_Witness ==
  \E o \in Ops : /\ ops[o].kind = "retry" /\ ops[o].result = "failed"
                 /\ ops[o].attempt = RetryMaxAttempts /\ ops[o].last = "retryable"

\* C14: a call that was admitted and whose stream setup fails (the producer
\* cannot be started, the resumable stream cannot be set, or the start of
\* the lifecycle fails) gives up its slot and health record and goes on to
\* the fallback; the fallback ends the call with the synthetic completion,
\* and with a failure only when fetching or saving the unsaved messages
\* failed; otherwise the setup ends with the stream.
C14_SetupFallback ==
  [][ /\ \A out \in FallbackOutcomes :
           FallbackResult(out) = IF out \in {"getFailed", "saveFailed"}
                                   THEN "fatal" ELSE "synthetic"
      /\ \A c \in Calls :
           LET Setup == {"invoke", "setStream", "start"}
               a == calls[c].app
           IN /\ (calls[c].pc \in Setup /\ calls'[c].pc \notin Setup)
                   => \/ calls'[c].pc = "done" /\ calls'[c].result = "stream"
                      \/ /\ calls'[c].pc = "fallback"
                         /\ ~streamHealth'[a].has
                         /\ ~InPool(activeStreams', a)
              /\ (calls[c].pc = "fallback" /\ calls'[c].pc # "fallback")
                   => /\ calls'[c].pc = "done"
                      /\ calls'[c].result \in {FallbackResult(out) : out \in FallbackOutcomes}
                      /\ streamLocks'[a] = NoLock ]_vars

\* A call whose setup failed after its producer had started has returned
\* the synthetic completion.
C14_Witness ==
  \E c \in Calls : /\ calls[c].pc = "done" /\ calls[c].result = "synthetic"
                   /\ calls[c].prod # "none"

\* C15: processChatRequest never throws: every request that has ended has
\* returned a stream, the synthetic completion or the error response.
C15_NeverThrows ==
  \A r \in Reqs :
    reqs[r].pc = "done" => reqs[r].response \in {"stream", "synthetic", "error"}

\* C12: when a request for a session that had no token has returned the
\* stream and its producer has finished, with no store command having
\* failed, the token of the session is absent, the session holds no slot and
\* has no health record, and exactly one success is recorded; whatever the
\* order of the finish callback and the steps of the setup.
C12_FinishedClean ==
  \A r \in Reqs :
    (/\ reqs[r].pc = "done" /\ reqs[r].response = "stream"
     /\ calls[reqs[r].call].prod = "ended"
     /\ faults = NoFaults)
      => /\ token[reqs[r].app] = "absent"
         /\ ~InPool(activeStreams, reqs[r].app)
         /\ ~streamHealth[reqs[r].app].has
         /\ metrics.successfulRequests = 1

\* C13: when the producer of a request has reported a failure and the
\* request has ended, with no store command having failed, the token of the
\* session is absent, the session holds no slot and has no health record, a
\* failure is recorded, and the fallback has run: the call or the request
\* answered with the synthetic completion.
C13_ErrorHandled ==
  \A r \in Reqs :
    (/\ reqs[r].pc = "done" /\ reqs[r].call # 0
     /\ calls[reqs[r].call].prod = "ended"
     /\ faults = NoFaults)
      => /\ token[reqs[r].app] = "absent"
         /\ ~InPool(activeStreams, reqs[r].app)
         /\ ~streamHealth[reqs[r].app].has
         /\ metrics.failedRequests >= 1
         /\ reqs[r].response = "synthetic"

\* C21: with baseDelay 1000, multiplier 2 and maxDelay 10000 the sleep after
\* the k-th failed attempt is 1000, 2000, 4000, 8000, 10000, 10000, ...; for
\* any base delay it is the smaller of baseDelay * 2^(k-1) and maxDelay; and
\* there is no sleep after the last attempt.
C21_Backoff ==
  [][ /\ backoff.pc = "running" /\ backoff'.pc = "sleep"
        => LET k == backoff.attempt
               Doubled[i \in 1..MaxBackoffAttempts] ==
                 IF i = 1 THEN 1 ELSE 2 * Doubled[i - 1]
           IN /\ k < backoff.maxAttempts
              /\ backoff.baseDelay = 1000
                   => backoff'.delay = CASE k = 1 -> 1000 [] k = 2 -> 2000 [] k = 3 -> 4000
                                         [] k = 4 -> 8000 [] OTHER -> 10000
              /\ backoff'.delay = IF backoff.baseDelay * Doubled[k] < 10000
                                    THEN backoff.baseDelay * Doubled[k] ELSE 10000
      /\ backoff.pc = "running" /\ backoff.attempt = backoff.maxAttempts
        => backoff'.pc # "sleep" ]_vars

\* The sixth failed attempt has been slept after, with the capped delay.
C21_Witness ==
  /\ backoff.pc = "sleep" /\ backoff.attempt = 6 /\ backoff.baseDelay = 1000
  /\ backoff.delay = 10000

\* ------------------------------------------------------- health summary
\* The issues a summary has to find in the registry and the breakers: a
\* success rate under 95 percent of the requests recorded (no request
\* counting as 100 percent), more than 50 errors counted, and one issue for
\* every breaker that is open.
IssuesFound ==
  (IF metrics.totalRequests > 0
        /\ 100 * metrics.successfulRequests < 95 * metrics.totalRequests
     THEN 1 ELSE 0)
  + (IF metrics.count > 50 THEN 1 ELSE 0)
  + Cardinality({x \in Contexts : breakers[x] = "open"})

\* C22: getHealthSummary returns healthy exactly when the success rate is at
\* least 95 percent, the error count is at most 50 and no breaker is open;
\* otherwise degraded when it found 1 or 2 issues and unhealthy when it
\* found more than 2.
C22_HealthSummary ==
  summary # NoSummary =>
    /\ summary.status = "healthy" <=>
          /\ (metrics.totalRequests = 0
                \/ 100 * metrics.successfulRequests >= 95 * metrics.totalRequests)
          /\ metrics.count <= 50
          /\ \A x \in Contexts : breakers[x] # "open"
    /\ summary.status = "degraded" <=> IssuesFound \in {1, 2}
    /\ summary.status = "unhealthy" <=> IssuesFound > 2
    /\ Cardinality(summary.issues) = IssuesFound

\* A summary of two issues, a high error count under a good success rate
\* and one open breaker, is degraded.
C22_Witness ==
  /\ summary # NoSummary
  /\ summary.status = "degraded"
  /\ metrics.count = 51
  /\ 100 * metrics.successfulRequests >= 95 * metrics.totalRequests
  /\ Cardinality({x \in Contexts : breakers[x] = "open"}) = 1

\* ------------------------------------------------------ bounded records
\* The requests recorded since the last reset that failed, by their number.
FailedRecorded == {i \in 1..Len(log.entries) : ~log.entries[i].ok}

\* C23: after any sequence of recordSuccess and recordFailure calls the
\* recent errors are at most MAX_ERRORS and are the most recent failures,
\* newest first; the error count is the number of failures recorded since
\* the last reset; and the request durations are at most MAX_REQUEST_TIMES,
\* the most recent ones in the order they were recorded.
C23_BoundedRecords ==
  LET n == Len(log.entries)
      kept == Len(metrics.requestTimes)
  IN /\ Len(metrics.recent) = Min(Cardinality(FailedRecorded), MAX_ERRORS)
     /\ \A k \in 1..Len(metrics.recent) :
          /\ metrics.recent[k].at \in FailedRecorded
          /\ Cardinality({j \in FailedRecorded : j >= metrics.recent[k].at}) = k
          /\ metrics.recent[k].message = log.entries[metrics.recent[k].at].message
     /\ metrics.count = Cardinality(FailedRecorded)
     /\ kept = Min(n, MAX_REQUEST_TIMES)
     /\ \A k \in 1..kept : metrics.requestTimes[k] = log.entries[n - kept + k].duration

\* After a reset, more failures than the list of errors holds and more
\* requests than the list of durations holds were recorded, a success among
\* them, with different messages and durations.
C23_Witness ==
  /\ log.resets = 1
  /\ Len(log.entries) > MAX_REQUEST_TIMES
  /\ Cardinality(FailedRecorded) > MAX_ERRORS
  /\ \E i \in 1..Len(log.entries) : log.entries[i].ok
  /\ Len(metrics.recent) = MAX_ERRORS
  /\ metrics.recent[1].message # metrics.recent[MAX_ERRORS].message
  /\ metrics.requestTimes[1] # metrics.requestTimes[MAX_REQUEST_TIMES]

\* --------------------------------------------------- observed outcomes
\* The requests whose processChatRequest has recorded its outcome and
\* returned: with a response, or with the promise of one.
Returned == {r \in Reqs : reqs[r].pc \in {"done", "resume"}}

\* C24: every processChatRequest call records exactly one outcome, a
\* failure when it returns the error response and a success on every other
\* path, the fallback included, and none before it returns; and
\* totalRequests = successfulRequests + failedRequests in every state.
C24_OneOutcome ==
  /\ metrics.totalRequests = metrics.successfulRequests + metrics.failedRequests
  /\ metrics.totalRequests = Cardinality(Returned)
  /\ metrics.failedRequests = Cardinality({r \in Returned : reqs[r].response = "error"})
  /\ metrics.count = metrics.failedRequests

\* One request has returned the error response after its fallback failed
\* and another the completion the fallback produced.
C24_Witness ==
  /\ \E r \in Reqs : reqs[r].pc = "done" /\ reqs[r].response = "error"
  /\ \E r \in Reqs : reqs[r].pc = "done" /\ reqs[r].response = "synthetic"
  /\ metrics.totalRequests = 2
  /\ metrics.failedRequests = 1

\* ------------------------------------------------------ capacity relief
\* C25: a call that finds the pool at capacity force-cleans the two
\* sessions admitted earliest among its members, the older one first: each
\* of the two cleanups leaves that session without slot, token and health
\* record, and no other session wins or loses a slot in it.
C25_Relief ==
  [][ \A c \in Calls :
        /\ (calls[c].pc # "relief" /\ calls'[c].pc = "relief")
             => /\ Len(activeStreams) = capacity
                /\ calls'[c].relief = <<activeStreams[1], activeStreams[2]>>
        /\ (calls[c].pc = "relief" /\ calls'[c] # calls[c])
             => LET old == Head(calls[c].relief)
                IN /\ ~InPool(activeStreams', old)
                   /\ token'[old] = "absent"
                   /\ ~streamHealth'[old].has
                   /\ activeStreams' = SelectSeq(activeStreams, LAMBDA x : x # old)
                   /\ calls'[c].relief = Tail(calls[c].relief)
                   /\ calls'[c].pc = IF Len(calls[c].relief) = 1 THEN "reserve" ELSE "relief" ]_vars

\* ------------------------------------------------------- reconciliation
\* C26: when a call finds the token of its session running, it takes the
\* graceful branch exactly if the health record of the session shows
\* activity within STREAM_TIMEOUT and an age under STREAM_MAX_AGE.  On the
\* graceful branch it publishes the abort signal and deletes the token,
\* then waits for at most MaxAttempts reads, and goes on to clear the state
\* without a force cleanup; on the other branch it runs the force cleanup
\* at once, which publishes nothing and waits for nothing.
C26_Reconcile ==
  [][ \A c \in Calls :
        LET a == calls[c].app
            h == streamHealth[a]
        IN /\ (calls[c].pc = "es_isRunning" /\ calls'[c].pc \in {"es_stop", "es_force"})
                => /\ token[a] = "running"
                   /\ calls'[c].pc = "es_stop"
                        <=> (h.has /\ h.idle < STREAM_TIMEOUT /\ h.age < STREAM_MAX_AGE)
           /\ (calls[c].pc = "es_stop" /\ calls'[c] # calls[c])
                => /\ calls'[c].pc = "es_wait"
                   /\ token'[a] = "absent"
                   /\ \A d \in Calls : Hears(calls[d], a) => calls'[d].shouldAbort
           /\ (calls[c].pc = "es_wait" /\ calls'[c] # calls[c])
                => /\ calls'[c].pc \in {"es_wait", "es_clear"}
                   /\ calls'[c].attempts <= MaxAttempts
           /\ (calls[c].pc = "es_force" /\ calls'[c] # calls[c])
                => /\ calls'[c].pc = "es_clear"
                   /\ \A d \in Calls : calls'[d].shouldAbort = calls[d].shouldAbort ]_vars

\* C27: the new producer of a session is invoked only after the holder the
\* reconciliation found was confirmed stopped, waitForStreamToStop having
\* returned true, or was force-cleaned; never after a wait that timed out.
C27_Takeover ==
  [][ \A c \in Calls :
        (calls[c].pc = "invoke" /\ calls'[c].prod = "active")
          => calls[c].prior # "false" ]_vars

\* ----------------------------------------------------------- cancellation
\* C28: the cancellation token of a stream is cancelled only at a step
\* boundary, by the step-finished handler of that stream and after an abort
\* signal was observed; the arrival of an abort signal cancels nothing.
C28_Cooperative ==
  [][ \A c \in Calls :
        (calls[c].prod = "active" /\ ~calls[c].aborted /\ calls'[c].aborted)
          => (calls[c].shouldAbort /\ OnStepFinish(c)) ]_vars

\* C29: an abort signal received by an active stream gets the token of the
\* session cleared and the unsaved output flushed before the cancellation
\* token is cancelled: a stream whose cancellation token is cancelled has
\* flushed, and so has one whose producer ends on the cancellation.
C29_AbortFlush ==
  [][ \A c \in Calls :
        /\ (calls[c].prod = "active" /\ ~calls[c].aborted /\ calls'[c].aborted)
             => (calls'[c].flushed /\ token'[calls[c].app] = "absent")
        /\ ProducerCancelled(c) => calls[c].flushed ]_vars

\* ---------------------------------------------------------------- heartbeat
\* The time of the keep-alive before second t, or of the start of the stream.
PreviousKeepAlive(t) ==
  LET before == {b \in pulse.beats : b < t}
  IN IF before = {} THEN 0 ELSE CHOOSE b \in before : \A x \in before : x <= b

\* C30: a chunk of a stream makes it send a keep-alive exactly when more
\* than 5 seconds have passed since its previous keep-alive or its start, so
\* two keep-alives of a stream are more than 5 seconds apart; a keep-alive
\* the store accepts sets the token to running for 15 seconds from then and
\* marks the health record active.
C30_Heartbeat ==
  [][ /\ \A t \in pulse'.chunks :
           t \in pulse'.beats <=> t - PreviousKeepAlive(t)' > 5
      /\ \A b1, b2 \in pulse'.beats : b1 < b2 => b2 - b1 > 5
      /\ pulse'.beats \subseteq pulse'.chunks
      /\ (pulse'.beats # pulse.beats /\ faults' = faults)
           => /\ token'[1] = "running"
              /\ pulse'.expires = pulse.now + 15
              /\ streamHealth'[1].idle = 0 ]_vars

\* The stream has sent two keep-alives, and between them it had a chunk that
\* sent none.
C30_Witness ==
  \E b1, b2 \in pulse.beats, t \in pulse.chunks \ pulse.beats : b1 < t /\ t < b2

\* C31: while the producer of a stream is working, the token of its session
\* is refreshed within every TTL window, so it is never found expired.
C31_TokenAlive == calls[1].prod = "active" => token[1] = "running"

\* C32: the failure count of a breaker counts consecutive failures: a call
\* under the breaker that succeeds while it is closed leaves the count at 0,
\* so the breaker opens only after failureThreshold failures with no success
\* between them.
C32_Consecutive ==
  [][\A o \in Ops :
      (/\ Guarded(ops[o].kind)
       /\ ops[o].pc = "running" /\ ops'[o].pc = "done" /\ ops'[o].result = "ok"
       /\ circuitBreaker.state = "closed")
        => circuitBreaker'.failureCount = 0]_vars

\* SpecSweep: the pool is full of sessions that are streaming; their chunks
\* and steps arrive or not while time passes, the streams end or not, and
\* the health check timer comes by.
SpecSweep ==
  InitPool /\ [][\/ \E a \in Apps : SweepEntry(a)
                 \/ Tick
                 \/ \E c \in Calls : OnChunk(c)
                 \/ \E c \in Calls : OnStepFinish(c)
                 \/ \E c \in Calls : OnFinish(c)
                 \/ \E c \in Calls : OnError(c)]_vars

C34_ProducerAdmitted ==
  /\ \A c \in Calls :
       calls[c].prod = "active"
         => /\ InPool(activeStreams, calls[c].app)
            /\ streamHealth[calls[c].app].has
  /\ Cardinality({c \in Calls : calls[c].prod = "active"}) <= capacity

\* C35: streamLocks has an entry for a session exactly while a lifecycle
\* operation for it is in flight, the entry is that of an operation in
\* flight, and an operation that completes removes no entry but its own.
C35_LockTable ==
  /\ \A a \in Apps :
       /\ streamLocks[a] # NoLock <=> \E c \in Calls : InOp(c) /\ App(c) = a
       /\ streamLocks[a] # NoLock => InOp(streamLocks[a]) /\ App(streamLocks[a]) = a
  /\ \A c \in Calls : InOp(c) => streamLocks[App(c)] # NoLock

\* C36: once the producer of a stream has ended and the token of its session
\* is absent, no later step of that same stream, a chunk heartbeat or the
\* start touch that ends its setup, sets the token back to running.
C36_StaysAbsent ==
  [][\A c \in Calls :
      (/\ calls[c].prod = "ended"
       /\ token[App(c)] = "absent"
       /\ Start(c) \/ OnChunk(c))
        => token'[App(c)] = "absent"]_vars

\* C37: the terminal callbacks and the abort handling of an older stream of
\* a session touch that stream only.  Call 1 is the first operation for its
\* session, so the stream of any other call for it is a newer one: while the
\* producer of such a call runs, no callback of the producer of call 1 takes
\* away the health record, the slot or the token of the session.
C37_OwnStreamOnly ==
  [][\A d \in Calls \ {1} :
      (/\ App(d) = App(1)
       /\ calls[1].prod = "active" /\ calls[d].prod = "active"
       /\ OnFinish(1) \/ OnError(1) \/ OnStepFinish(1))
        => /\ streamHealth[App(d)].has => streamHealth'[App(d)].has
           /\ InPool(activeStreams, App(d)) => InPool(activeStreams', App(d))
           /\ token[App(d)] = "running" => token'[App(d)] = "running"]_vars

====
